---- MODULE Spec2Model ----
(***************************************************************************)
(* A model of the cashbook ledger application (services/storage.ts and its *)
(* views).  The hosted store is modelled by its tables (projects,          *)
(* project_members, ledgers, entries); every service call is an action     *)
(* whose return value is kept in a response variable.                      *)
(*                                                                         *)
(* Amounts are integers: sums are exact, as they are in the program for    *)
(* every amount that is an integer below 2^53.                             *)
(***************************************************************************)
EXTENDS Integers, Sequences, FiniteSets, TLC

(***************************************************************************)
(* Bounds and value domains.                                               *)
(***************************************************************************)
\* the largest number of entries a book holds
MaxTx == 3

\* amounts typed into the form (type="number", no minimum: negatives pass)
Amounts == {0 - 1, 2}
TxTypes == {"IN", "OUT"}
\* calendar dates as day numbers, times of day as minutes after midnight
Dates == {1, 2}
Times == {540, 600}

None == "none"
\* a response variable holds <<>> before the call returns and <<value>> after
NoResult == <<>>
Some(v) == <<v>>

\* the signed-in users, each with a session of their own
Users == {"u1", "u2"}
\* join codes: the least and the greatest value of the generator
Codes == {"100000", "999999"}
\* the most businesses ever created
MaxBusinesses == 2

\* business names typed into the forms
Names == {"A", "B"}

InvalidCode == "Invalid joining code."
AlreadyMember == "You are already a member of this business."
Joined == "Joined business successfully!"
NameMismatch == "Name does not match."

VARIABLES
    projects,         \* table projects: rows in creation order
    project_members,  \* table project_members: a set of rows
    ledgers,          \* table ledgers: rows in creation order
    entries,          \* table entries: rows in the order the store returns them
    txResult,         \* last value returned by getTransactionsWithBalance
    totalsResult,     \* last value returned by getBookTotals (<<>> for null)
    businessesResult, \* last value returned by getBusinesses
    booksResult,      \* last value returned by getBooks
    fetched,          \* the array txs of the last getTransactionsWithBalance
                      \* call, as the call left it
    clock,            \* the store's sequence for entry ids and created_at
    bookView,         \* BookDetailView: its state while mounted, else <<>>
    join,             \* per user: the joinBusiness call in progress and its result
    retired,          \* history: the join codes a rotation has replaced
    currentUser,      \* getCurrentUser(): the user signed in to the app
    dashboard,        \* DashboardView: its state while mounted, else <<>>
    detail,           \* BusinessDetailView: its state while mounted, else <<>>
    request,          \* the last owner-only request a view sent to the store
    user,             \* App: its state user (<<>> for null)
    viewState         \* App: its state viewState

store == <<projects, project_members, ledgers, entries>>
reads == <<txResult, totalsResult, businessesResult>>
views == <<currentUser, dashboard, detail, request, user, viewState>>
bookSide == <<booksResult, fetched, clock, bookView>>
vars == <<projects, project_members, ledgers, entries, txResult, totalsResult,
          businessesResult, booksResult, fetched, clock, bookView, join, retired, currentUser, dashboard, detail, request,
          user, viewState>>

(***************************************************************************)
(* Helpers on sequences.                                                   *)
(***************************************************************************)
RECURSIVE Reverse(_)
Reverse(s) == IF s = <<>> THEN <<>> ELSE Append(Reverse(Tail(s)), Head(s))

(***************************************************************************)
(* getTransactionsWithBalance                                              *)
(***************************************************************************)
\* new Date(`${date}T${time}`).getTime(), in minutes
Timestamp(tx) == tx.date * (24 * 60) + tx.time

\* a comparator that forgets the time of day
CompareDateOnly(a, b) == a.date - b.date

\* the comparator handed to Array.prototype.sort
CompareAsc(a, b) == Timestamp(a) - Timestamp(b)

\* an insertion that keeps one entry per timestamp
RECURSIVE InsertSortedDropTies(_, _)
InsertSortedDropTies(sorted, x) ==
    IF sorted = <<>> THEN <<x>>
    ELSE IF CompareAsc(Head(sorted), x) = 0 THEN <<x>> \o Tail(sorted)
    ELSE IF CompareAsc(Head(sorted), x) < 0
         THEN <<Head(sorted)>> \o InsertSortedDropTies(Tail(sorted), x)
         ELSE <<x>> \o sorted

\* an insertion that puts an entry before the entries of its own timestamp
RECURSIVE InsertSortedBeforeTies(_, _)
InsertSortedBeforeTies(sorted, x) ==
    IF sorted = <<>> THEN <<x>>
    ELSE IF CompareAsc(Head(sorted), x) < 0
         THEN <<Head(sorted)>> \o InsertSortedBeforeTies(Tail(sorted), x)
         ELSE <<x>> \o sorted

\* Array.prototype.sort is stable: x goes after every element that does not
\* compare greater than it
RECURSIVE InsertSorted(_, _)
InsertSorted(sorted, x) ==
    IF sorted = <<>> THEN <<x>>
    ELSE IF CompareAsc(Head(sorted), x) <= 0
         THEN <<Head(sorted)>> \o InsertSorted(Tail(sorted), x)
         ELSE <<x>> \o sorted

RECURSIVE SortAsc(_)
SortAsc(txs) ==
    IF txs = <<>> THEN <<>>
    ELSE InsertSorted(SortAsc(SubSeq(txs, 1, Len(txs) - 1)), txs[Len(txs)])

\* an accumulator that forgets the direction
ApplyTxAlwaysAdd(running, tx) == running + tx.amount

\* an accumulator that leaves the money going out where it was
ApplyTxInOnly(running, tx) ==
    IF tx.type = "IN" THEN running + tx.amount ELSE running

\* one step of the accumulator
ApplyTx(running, tx) ==
    IF tx.type = "IN" THEN running + tx.amount ELSE running - tx.amount

\* a running total kept from one call to the next
RunningKept ==
    IF txResult = NoResult \/ txResult[1] = <<>> THEN 0
    ELSE txResult[1][1].runningBalance

\* let running = 0, at every call
RunningStart == 0

RECURSIVE RunningAfter(_, _)
RunningAfter(sorted, k) ==
    IF k = 0 THEN RunningStart ELSE ApplyTx(RunningAfter(sorted, k - 1), sorted[k])

WithBalance(sorted) ==
    [k \in 1..Len(sorted) |->
        [id |-> sorted[k].id, bookId |-> sorted[k].bookId,
         amount |-> sorted[k].amount, type |-> sorted[k].type,
         date |-> sorted[k].date, time |-> sorted[k].time,
         createdAt |-> sorted[k].createdAt,
         runningBalance |-> RunningAfter(sorted, k)]]

\* data.map(...): a row of table entries as a Transaction
ToTransaction(t) ==
    [id |-> t.id, bookId |-> t.ledger_id, amount |-> t.amount, type |-> t.type,
     date |-> t.date, time |-> t.time, createdAt |-> t.created_at]

MapRows(data) == [i \in 1..Len(data) |-> ToTransaction(data[i])]

\* the same without the final reverse()
getTransactionsOldestFirst(data) == WithBalance(SortAsc(MapRows(data)))

\* txs.sort(...) with no copy taken: the array txs itself ends up sorted
SortInPlace(txs) == [txs |-> SortAsc(txs), sortedAsc |-> SortAsc(txs)]

\* [...txs].sort(...): the copy is sorted, txs keeps the fetched order
SortCopy(txs) == [txs |-> txs, sortedAsc |-> SortAsc(txs)]

getTransactionsWithBalance(data) ==
    Reverse(WithBalance(SortCopy(MapRows(data)).sortedAsc))

(***************************************************************************)
(* The store's queries.                                                    *)
(***************************************************************************)
\* the most books a business holds
MaxBooks == 2
\* the most entries the books of an aggregated business hold together
MaxBookTx == 2

\* from('entries').select('*').eq('ledger_id', bookId), and the nested
\* entries(amount, type) of a ledger
EntriesOf(bookId) == SelectSeq(entries, LAMBDA r : r.ledger_id = bookId)

\* the nested ledgers(...) of a project
LedgersOf(businessId) == SelectSeq(ledgers, LAMBDA l : l.project_id = businessId)

\* .order('created_at', { ascending: false })
RECURSIVE OrderByCreatedAtDesc(_)
OrderByCreatedAtDesc(rows) ==
    IF rows = <<>> THEN <<>>
    ELSE LET rest == OrderByCreatedAtDesc(Tail(rows))
             newer == SelectSeq(rest, LAMBDA r : r.created_at > Head(rows).created_at)
             older == SelectSeq(rest, LAMBDA r : r.created_at <= Head(rows).created_at)
         IN newer \o <<Head(rows)>> \o older

\* table profiles
Email(u) == IF u = "u1" THEN "u1@example.com" ELSE "u2@example.com"

\* a lookup that forgets the filter on join_code
ProjectsAnyCode(code) == { projects[i].id : i \in 1..Len(projects) }

\* from('projects').select('id').eq('join_code', code)
ProjectsWithCode(code) ==
    { projects[i].id : i \in { j \in 1..Len(projects) : projects[j].join_code = code } }

(***************************************************************************)
(* getBookTotals, getBooks                                                 *)
(***************************************************************************)
\* a totalIn whose accumulator starts at 1
RECURSIVE SumInFromOne(_)
SumInFromOne(rows) ==
    IF rows = <<>> THEN 1
    ELSE SumInFromOne(SubSeq(rows, 1, Len(rows) - 1))
         + (IF rows[Len(rows)].type = "IN" THEN rows[Len(rows)].amount ELSE 0)

RECURSIVE SumIn(_)
SumIn(rows) ==
    IF rows = <<>> THEN 0
    ELSE SumIn(SubSeq(rows, 1, Len(rows) - 1))
         + (IF rows[Len(rows)].type = "IN" THEN rows[Len(rows)].amount ELSE 0)

\* a totalOut that adds every entry, IN entries too
RECURSIVE SumAll(_)
SumAll(rows) ==
    IF rows = <<>> THEN 0
    ELSE SumAll(SubSeq(rows, 1, Len(rows) - 1)) + rows[Len(rows)].amount

RECURSIVE SumOut(_)
SumOut(rows) ==
    IF rows = <<>> THEN 0
    ELSE SumOut(SubSeq(rows, 1, Len(rows) - 1))
         + (IF rows[Len(rows)].type = "IN" THEN 0 ELSE rows[Len(rows)].amount)

\* the BookWithTotals built from a ledger row and its nested entries
BookWithTotals(b, businessId) ==
    [id |-> b.id, businessId |-> businessId, createdAt |-> b.created_at,
     totalIn |-> SumIn(EntriesOf(b.id)), totalOut |-> SumOut(EntriesOf(b.id)),
     balance |-> SumIn(EntriesOf(b.id)) - SumOut(EntriesOf(b.id))]

\* .single() on ledgers: <<>> stands for null
getBookTotals(bookId) ==
    LET data == SelectSeq(ledgers, LAMBDA l : l.id = bookId) IN
    IF Len(data) # 1 THEN <<>> ELSE <<BookWithTotals(data[1], data[1].project_id)>>

getBooks(businessId) ==
    LET data == OrderByCreatedAtDesc(LedgersOf(businessId)) IN
    [i \in 1..Len(data) |-> BookWithTotals(data[i], data[i].project_id)]

IdleJoin == [pc |-> "idle", code |-> None, project |-> 0, result |-> None]

NoRequest == [op |-> None, id |-> 0, by |-> None]

\* a business of u1 with one book, nobody joining, the app just opened
OneBusiness ==
    /\ projects = <<[id |-> 1, owner_id |-> "u1", name |-> "A", join_code |-> "100000"]>>
    /\ project_members = {}
    /\ join = [u \in Users |-> IdleJoin]
    /\ retired = {}

\* the state DashboardView is mounted with: useState([]), loading = true, no
\* business being edited, none awaiting the delete confirmation
DashboardMounted ==
    [businesses |-> <<>>, loading |-> TRUE, editingId |-> 0,
     businessToDelete |-> <<>>, deleteError |-> ""]

\* the state BusinessDetailView is mounted with for the business selected
DetailMounted(businessId) ==
    [businessId |-> businessId, business |-> <<>>, books |-> <<>>, loading |-> TRUE]

\* the values of ViewState
AUTH == [name |-> "AUTH"]
DASHBOARD == [name |-> "DASHBOARD"]
BUSINESS_DETAIL(businessId) == [name |-> "BUSINESS_DETAIL", businessId |-> businessId]
BOOK_DETAIL(businessId, bookId) ==
    [name |-> "BOOK_DETAIL", businessId |-> businessId, bookId |-> bookId]

\* App with the stored user signed in, at the view state given
AppAt(view) ==
    /\ user = Some(currentUser)
    /\ viewState = view

\* App after sign-in: viewState DASHBOARD
AppOpened ==
    /\ AppAt(DASHBOARD)
    /\ dashboard = Some(DashboardMounted)
    /\ detail = NoResult
    /\ bookView = NoResult
    /\ request = NoRequest

(***************************************************************************)
(* The book specification: a book with any stored entries, read by the two *)
(* services.                                                               *)
(***************************************************************************)
RowData == [amount : Amounts, type : TxTypes, date : Dates, time : Times]

BookInit ==
    /\ \E n \in 0..MaxTx : \E f \in [1..n -> RowData] :
          entries = [i \in 1..n |->
                        [id |-> i, ledger_id |-> 1, amount |-> f[i].amount,
                         type |-> f[i].type, date |-> f[i].date, time |-> f[i].time,
                         created_at |-> i]]
    /\ ledgers = <<[id |-> 1, project_id |-> 1, created_at |-> 1]>>
    /\ txResult = NoResult
    /\ totalsResult = NoResult
    /\ businessesResult = NoResult
    /\ booksResult = NoResult
    /\ fetched = NoResult
    /\ clock = Len(entries) + 1
    /\ OneBusiness
    /\ currentUser = "u1"
    /\ AppOpened

GetTransactionsWithBalance(bookId) ==
    /\ txResult' = Some(getTransactionsWithBalance(EntriesOf(bookId)))
    /\ fetched' = Some(SortCopy(MapRows(EntriesOf(bookId))).txs)
    /\ UNCHANGED <<store, totalsResult, businessesResult, booksResult, clock, bookView,
                   join, retired, views>>

GetBookTotals(bookId) ==
    /\ totalsResult' = getBookTotals(bookId)
    /\ UNCHANGED <<store, txResult, businessesResult, join, bookSide, retired, views>>

\* the service call getBooks(businessId)
GetBooks(businessId) ==
    /\ booksResult' = Some(getBooks(businessId))
    /\ UNCHANGED <<store, reads, fetched, clock, bookView, join, retired, views>>

(***************************************************************************)
(* Properties of the balance engine (specification Spec).                  *)
(***************************************************************************)
\* the signed amount of an entry: + for IN, - for every other type
Signed(tx) == IF tx.type = "IN" THEN tx.amount ELSE 0 - tx.amount

\* the sum of the amounts of the rows of one type
RECURSIVE AmountOfType(_, _)
AmountOfType(rows, ty) ==
    IF rows = <<>> THEN 0
    ELSE (IF Head(rows).type = ty THEN Head(rows).amount ELSE 0)
         + AmountOfType(Tail(rows), ty)

C2_RunningBalanceAccumulates ==
    txResult # NoResult =>
        LET out == txResult[1] IN
        /\ \A i \in 1..(Len(out) - 1) :
              out[i].runningBalance = out[i + 1].runningBalance + Signed(out[i])
        /\ Len(out) > 0 => out[Len(out)].runningBalance = Signed(out[Len(out)])

C2_Witness ==
    /\ txResult # NoResult /\ Len(txResult[1]) = 3
    /\ LET out == txResult[1] IN
       /\ out[1].type = "OUT" /\ out[2].type = "IN" /\ out[3].type = "OUT"
       /\ out[1].runningBalance = out[2].runningBalance - out[1].amount
       /\ out[1].id = 1 /\ out[2].id = 3

\* C3: the output of getTransactionsWithBalance is sorted descending by
\* (date, time): for adjacent a, b either a.date > b.date, or the dates are
\* equal and a.time >= b.time.
C3_SortedDescending ==
    txResult # NoResult =>
        LET out == txResult[1] IN
        \A i \in 1..(Len(out) - 1) :
            \/ out[i].date > out[i + 1].date
            \/ out[i].date = out[i + 1].date /\ out[i].time >= out[i + 1].time

C3_Witness ==
    /\ txResult # NoResult /\ Len(txResult[1]) = 3
    /\ LET out == txResult[1] IN
       /\ out[1].date = out[2].date /\ out[1].time > out[2].time
       /\ out[2].date > out[3].date /\ out[2].time < out[3].time
       /\ out[1].id = 2 /\ out[2].id = 1 /\ out[3].id = 3

\* C4: every fetched entry appears exactly once in the output and nothing
\* else does: the output ids are a permutation of the fetched ids, and each
\* entry keeps its amount, type, date and time.
C4_OutputIsPermutation ==
    txResult # NoResult =>
        LET data == EntriesOf(1)
            out == txResult[1]
        IN
        /\ Len(out) = Len(data)
        /\ \A i \in 1..Len(data) :
              \E k \in 1..Len(out) :
                 /\ out[k].id = data[i].id
                 /\ out[k].amount = data[i].amount
                 /\ out[k].type = data[i].type
                 /\ out[k].date = data[i].date
                 /\ out[k].time = data[i].time
        /\ \A k, l \in 1..Len(out) : out[k].id = out[l].id => k = l

C4_Witness ==
    /\ txResult # NoResult /\ Len(txResult[1]) = 3
    /\ LET out == txResult[1] IN
       /\ Timestamp(out[1]) = Timestamp(out[2])
       /\ out[1].amount # out[2].amount
       /\ out[3].id = 2

(***************************************************************************)
(* getBusinesses, getBusiness and the two views that aggregate.            *)
(***************************************************************************)
\* an insertion that puts a book before the books created at the same instant
RECURSIVE InsertBeforeTies(_, _)
InsertBeforeTies(sorted, x) ==
    IF sorted = <<>> THEN <<x>>
    ELSE IF Head(sorted).createdAt - x.createdAt > 0
         THEN <<Head(sorted)>> \o InsertBeforeTies(Tail(sorted), x)
         ELSE <<x>> \o sorted

\* books.sort((a, b) => b.createdAt - a.createdAt): stable, newest first
RECURSIVE InsertNewestFirst(_, _)
InsertNewestFirst(sorted, x) ==
    IF sorted = <<>> THEN <<x>>
    ELSE IF Head(sorted).createdAt - x.createdAt >= 0
         THEN <<Head(sorted)>> \o InsertNewestFirst(Tail(sorted), x)
         ELSE <<x>> \o sorted

RECURSIVE SortNewestFirst(_)
SortNewestFirst(books) ==
    IF books = <<>> THEN <<>>
    ELSE InsertNewestFirst(SortNewestFirst(SubSeq(books, 1, Len(books) - 1)),
                           books[Len(books)])

\* a business total whose accumulator starts at 1
RECURSIVE SumTotalInFromOne(_)
SumTotalInFromOne(books) ==
    IF books = <<>> THEN 1
    ELSE SumTotalInFromOne(SubSeq(books, 1, Len(books) - 1)) + books[Len(books)].totalIn

\* totalIn += bIn over the books of one business
RECURSIVE SumTotalIn(_)
SumTotalIn(books) ==
    IF books = <<>> THEN 0
    ELSE SumTotalIn(SubSeq(books, 1, Len(books) - 1)) + books[Len(books)].totalIn

\* a business total that counts only the first book
FirstTotalOut(books) == IF books = <<>> THEN 0 ELSE books[1].totalOut

\* totalOut += bOut over the books of one business
RECURSIVE SumTotalOut(_)
SumTotalOut(books) ==
    IF books = <<>> THEN 0
    ELSE SumTotalOut(SubSeq(books, 1, Len(books) - 1)) + books[Len(books)].totalOut

\* projects owned by the user, .order('created_at', { ascending: false })
OwnedData(userId) ==
    LET owned == Reverse(SelectSeq(projects, LAMBDA p : p.owner_id = userId)) IN
    [i \in 1..Len(owned) |->
        [project |-> owned[i], isShared |-> FALSE, ownerEmail |-> None]]

\* sharedData.map(...): the project of a membership row, marked as shared
SharedRow(p) == [project |-> p, isShared |-> TRUE, ownerEmail |-> Email(p.owner_id)]

\* project_members of the user joined with projects, in the store's order
SharedData(userId) ==
    LET shared == SelectSeq(projects, LAMBDA p :
                      \E m \in project_members :
                          m.user_id = userId /\ m.project_id = p.id)
    IN [i \in 1..Len(shared) |-> SharedRow(shared[i])]

\* allBusinesses.map(...)
BusinessWithTotals(b) ==
    LET data == LedgersOf(b.project.id)
        books == [i \in 1..Len(data) |-> BookWithTotals(data[i], b.project.id)]
    IN [id |-> b.project.id, userId |-> b.project.owner_id, name |-> b.project.name,
        joinCode |-> b.project.join_code,
        totalIn |-> SumTotalIn(books), totalOut |-> SumTotalOut(books),
        balance |-> SumTotalIn(books) - SumTotalOut(books),
        bookCount |-> Len(data), books |-> SortNewestFirst(books),
        isShared |-> b.isShared, ownerEmail |-> b.ownerEmail]

getBusinesses(userId) ==
    LET allBusinesses == OwnedData(userId) \o SharedData(userId) IN
    [i \in 1..Len(allBusinesses) |-> BusinessWithTotals(allBusinesses[i])]

\* .single() on projects: <<>> stands for undefined
getBusiness(id) ==
    LET data == SelectSeq(projects, LAMBDA p : p.id = id) IN
    IF Len(data) # 1 THEN <<>>
    ELSE <<[id |-> data[1].id, userId |-> data[1].owner_id, name |-> data[1].name,
            joinCode |-> data[1].join_code]>>

\* rpc('rotate_project_code'): one overwritable value per business
rotate_project_code(businessId, newCode) ==
    [i \in 1..Len(projects) |->
        IF projects[i].id = businessId
        THEN [projects[i] EXCEPT !.join_code = newCode]
        ELSE projects[i]]

CodeOf(businessId) ==
    LET data == SelectSeq(projects, LAMBDA p : p.id = businessId) IN data[1].join_code

Retire(businessId, newCode) ==
    IF CodeOf(businessId) = newCode THEN retired ELSE retired \cup {CodeOf(businessId)}

\* the service call getBusinesses(userId)
GetBusinesses(userId) ==
    /\ businessesResult' = Some(getBusinesses(userId))
    /\ UNCHANGED <<store, txResult, totalsResult, join, bookSide, retired, views>>

\* the book specification: the balance and the totals of the stored book
BookNext == GetTransactionsWithBalance(1) \/ GetBookTotals(1)

Spec == BookInit /\ [][BookNext]_vars

\* DashboardView.loadData, run on mount and at the end of the handlers below
DashboardLoadData ==
    /\ dashboard # NoResult
    /\ dashboard' = Some([dashboard[1] EXCEPT
                             !.businesses = getBusinesses(currentUser),
                             !.loading = FALSE])
    /\ UNCHANGED <<store, reads, join, bookSide, retired, currentUser, user, viewState, detail, request>>

\* the cards DashboardView shows once loading is over
Cards == IF dashboard = NoResult \/ dashboard[1].loading
         THEN <<>> ELSE dashboard[1].businesses

\* App.onSelectBusiness: viewState BUSINESS_DETAIL; DashboardView unmounts and
\* BusinessDetailView mounts for the card's business
OnSelectBusiness(i) ==
    /\ i \in 1..Len(Cards)
    /\ dashboard' = NoResult
    /\ detail' = Some(DetailMounted(Cards[i].id))
    /\ viewState' = BUSINESS_DETAIL(Cards[i].id)
    /\ UNCHANGED <<store, reads, join, bookSide, retired, currentUser, user, request>>

\* the business state BusinessDetailView.loadData sets from bRaw and booksData
DetailBusiness(bRaw, booksData) ==
    [id |-> bRaw.id, userId |-> bRaw.userId, name |-> bRaw.name,
     joinCode |-> bRaw.joinCode,
     totalIn |-> SumTotalIn(booksData), totalOut |-> SumTotalOut(booksData),
     balance |-> SumTotalIn(booksData) - SumTotalOut(booksData),
     bookCount |-> Len(booksData)]

\* an automatic rotation that does not look at the viewer
AutoRotatesAnyone(bRaw) == TRUE

\* the guard of the automatic rotation
AutoRotates(bRaw) == currentUser = bRaw.userId

\* a view that keeps the code it fetched before the rotation
WithFetchedCode(bRaw, newCode) == bRaw

\* bRaw = { ...bRaw, joinCode: newCode }
WithNewCode(bRaw, newCode) == [bRaw EXCEPT !.joinCode = newCode]

\* BusinessDetailView.loadData: getBusiness, the owner's automatic rotation,
\* getBooks, the local aggregation
BusinessDetailLoadData(newCode) ==
    /\ detail # NoResult
    /\ LET businessId == detail[1].businessId
           found == getBusiness(businessId)
       IN IF found = <<>>
          THEN /\ detail' = Some([detail[1] EXCEPT !.loading = FALSE])
               /\ UNCHANGED <<projects, retired, request>>
          ELSE LET bRaw == IF AutoRotates(found[1])
                           THEN WithNewCode(found[1], newCode)
                           ELSE found[1]
                   booksData == getBooks(businessId)
               IN /\ detail' = Some([detail[1] EXCEPT
                                        !.business = Some(DetailBusiness(bRaw, booksData)),
                                        !.books = booksData,
                                        !.loading = FALSE])
                  /\ IF AutoRotates(found[1])
                     THEN /\ projects' = rotate_project_code(businessId, newCode)
                          /\ retired' = Retire(businessId, newCode)
                          /\ request' = [op |-> "rotate", id |-> businessId,
                                         by |-> currentUser]
                     ELSE UNCHANGED <<projects, retired, request>>
    /\ UNCHANGED <<project_members, ledgers, entries, reads, join, bookSide, currentUser, user, viewState, dashboard>>

\* what BusinessDetailView renders: nothing but a message while loading or
\* when the business was not found
DetailShown == detail # NoResult /\ ~detail[1].loading /\ detail[1].business # <<>>

\* isOwner = currentUser?.id === business?.userId
isOwner == currentUser = detail[1].business[1].userId

\* BusinessDetailView.handleRotateCode, behind the button shown to isOwner,
\* with the confirmation accepted
HandleRotateCode(newCode) ==
    /\ DetailShown
    /\ isOwner
    /\ request' = [op |-> "rotate", id |-> detail[1].businessId, by |-> currentUser]
    /\ IF getBusiness(detail[1].businessId) # <<>>
       THEN /\ projects' = rotate_project_code(detail[1].businessId, newCode)
            /\ retired' = Retire(detail[1].businessId, newCode)
            /\ detail' = Some([detail[1] EXCEPT !.business[1].joinCode = newCode])
       ELSE UNCHANGED <<projects, retired, detail>>
    /\ UNCHANGED <<project_members, ledgers, entries, reads, join, bookSide, currentUser, user, viewState, dashboard>>

\* App.onBack of BusinessDetailView: viewState DASHBOARD, DashboardView mounts
OnBack ==
    /\ DetailShown
    /\ detail' = NoResult
    /\ dashboard' = Some(DashboardMounted)
    /\ viewState' = DASHBOARD
    /\ UNCHANGED <<store, reads, join, bookSide, retired, currentUser, user, request>>

(***************************************************************************)
(* The aggregation specification: one business of u1 with any books and    *)
(* entries, summarised by getBookTotals, the dashboard and the business    *)
(* view.                                                                   *)
(***************************************************************************)
EntryData == [amount : Amounts, type : TxTypes]

AggregateInit ==
    /\ OneBusiness
    /\ \E n \in 0..MaxBooks :
          /\ ledgers = [i \in 1..n |-> [id |-> i, project_id |-> 1, created_at |-> i]]
          /\ \E m \in 0..(IF n = 0 THEN 0 ELSE MaxBookTx) :
             \E f \in [1..m -> EntryData], l \in [1..m -> 1..n] :
                entries = [i \in 1..m |->
                              [id |-> i, ledger_id |-> l[i], amount |-> f[i].amount,
                               type |-> f[i].type, date |-> 1, time |-> 540,
                               created_at |-> i]]
    /\ txResult = NoResult
    /\ totalsResult = NoResult
    /\ businessesResult = NoResult
    /\ booksResult = NoResult
    /\ fetched = NoResult
    /\ clock = Len(entries) + 1
    /\ currentUser = "u1"
    /\ AppOpened

AggregateNext ==
    \/ \E b \in 1..MaxBooks : GetBookTotals(b)
    \/ GetBusinesses(currentUser)
    \/ DashboardLoadData
    \/ OnSelectBusiness(1)
    \/ \E c \in Codes : BusinessDetailLoadData(c)

SpecAggregate == AggregateInit /\ [][AggregateNext]_vars

(***************************************************************************)
(* Properties of the aggregation (specification SpecAggregate).            *)
(***************************************************************************)
\* a book summary agrees with the stored entries of its book
SummaryMatches(b) ==
    /\ b.totalIn = AmountOfType(EntriesOf(b.id), "IN")
    /\ b.totalOut = AmountOfType(EntriesOf(b.id), "OUT")
    /\ b.balance = b.totalIn - b.totalOut

\* C5: for every book, the summary computed by getBookTotals and by getBooks
\* has totalIn = the sum of its IN amounts, totalOut = the sum of its OUT
\* amounts and balance = totalIn - totalOut.
C5_BookSummaryIsSumByType ==
    /\ totalsResult # <<>> => SummaryMatches(totalsResult[1])
    /\ DetailShown =>
          /\ Len(detail[1].books) = Len(ledgers)
          /\ \A i \in 1..Len(detail[1].books) : SummaryMatches(detail[1].books[i])
          /\ \A l \in 1..Len(ledgers) :
                \E i \in 1..Len(detail[1].books) : detail[1].books[i].id = ledgers[l].id

C5_Witness ==
    /\ totalsResult # <<>> /\ DetailShown
    /\ totalsResult[1].totalIn = 2 /\ totalsResult[1].totalOut = 0 - 1
    /\ totalsResult[1].balance = 3
    /\ Len(detail[1].books) = 2
    /\ detail[1].books[1].id = 2 /\ detail[1].books[1].balance = 0
    /\ detail[1].books[2] = totalsResult[1]

\* the sum of one field over book summaries, and the entries of a business
RECURSIVE FieldSum(_, _)
FieldSum(books, field) ==
    IF books = <<>> THEN 0 ELSE Head(books)[field] + FieldSum(Tail(books), field)

EntriesOfBusiness(businessId) ==
    SelectSeq(entries, LAMBDA r :
        \E l \in 1..Len(ledgers) :
            ledgers[l].id = r.ledger_id /\ ledgers[l].project_id = businessId)

BusinessIsSumOfBooks(bw, books) ==
    /\ bw.totalIn = FieldSum(books, "totalIn")
    /\ bw.totalOut = FieldSum(books, "totalOut")
    /\ bw.balance = bw.totalIn - bw.totalOut
    /\ bw.balance = FieldSum(books, "balance")
    /\ bw.bookCount = Len(books)
    /\ bw.bookCount = Len(LedgersOf(bw.id))
    /\ bw.totalIn = AmountOfType(EntriesOfBusiness(bw.id), "IN")
    /\ bw.totalOut = AmountOfType(EntriesOfBusiness(bw.id), "OUT")

NoBooksSummary(business) ==
    /\ business.totalIn = 0
    /\ business.totalOut = 0
    /\ business.balance = 0
    /\ business.bookCount = 0

\* C17: a business that holds no book is summarised, by getBusinesses and by
\* BusinessDetailView.loadData, with totalIn = 0, totalOut = 0, balance = 0
\* and bookCount = 0; the summary is there, the call has not failed.
C17_NoBooksAllZero ==
    /\ businessesResult # NoResult =>
          \A i \in 1..Len(businessesResult[1]) :
              LedgersOf(businessesResult[1][i].id) = <<>> =>
                  /\ NoBooksSummary(businessesResult[1][i])
                  /\ businessesResult[1][i].books = <<>>
    /\ (detail # NoResult /\ ~detail[1].loading
          /\ LedgersOf(detail[1].businessId) = <<>>) =>
          /\ detail[1].business # <<>>
          /\ NoBooksSummary(detail[1].business[1])
          /\ detail[1].books = <<>>

\* C17 witness: the business has no book; getBusinesses has answered and the
\* detail view has loaded
C17_Witness ==
    /\ ledgers = <<>>
    /\ businessesResult # NoResult
    /\ Len(businessesResult[1]) = 1
    /\ DetailShown
    /\ detail[1].business[1].bookCount = 0

(***************************************************************************)
(* Join codes: createBusiness, rotateBusinessCode and the two awaited      *)
(* steps of joinBusiness, interleaved freely.                              *)
(***************************************************************************)
\* from('projects').insert([{ owner_id: session.user.id, name, join_code }])
createBusiness(u, joinCode) ==
    Append(projects, [id |-> Len(projects) + 1, owner_id |-> u, name |-> "A",
                      join_code |-> joinCode])

CreateBusiness(u, joinCode) ==
    /\ Len(projects) < MaxBusinesses
    /\ projects' = createBusiness(u, joinCode)
    /\ UNCHANGED <<project_members, ledgers, entries, reads, join, bookSide, retired, views>>

RotateBusinessCode(businessId, newCode) ==
    /\ getBusiness(businessId) # <<>>
    /\ projects' = rotate_project_code(businessId, newCode)
    /\ retired' = Retire(businessId, newCode)
    /\ UNCHANGED <<project_members, ledgers, entries, reads, join, bookSide, views>>

\* step 1 of joinBusiness: .eq('join_code', code).single()
JoinFound(code) == Cardinality(ProjectsWithCode(code)) = 1

JoinLookup(u, code) ==
    /\ join[u].pc = "idle"
    /\ join' = [join EXCEPT ![u] =
                  IF JoinFound(code)
                  THEN [pc |-> "insert", code |-> code,
                        project |-> CHOOSE i \in ProjectsWithCode(code) : TRUE,
                        result |-> None]
                  ELSE [pc |-> "idle", code |-> code, project |-> 0,
                        result |-> InvalidCode]]
    /\ UNCHANGED <<store, reads, bookSide, retired, views>>

\* step 2 of joinBusiness: from('project_members').insert(...)
MemberRow(u, projectId) == [project_id |-> projectId, user_id |-> u, role |-> "editor"]

JoinInsertResult(u, projectId) ==
    IF MemberRow(u, projectId) \in project_members THEN AlreadyMember ELSE Joined

JoinInsert(u) ==
    /\ join[u].pc = "insert"
    /\ project_members' = project_members \cup {MemberRow(u, join[u].project)}
    /\ join' = [join EXCEPT ![u].pc = "idle",
                            ![u].result = JoinInsertResult(u, join[u].project)]
    /\ UNCHANGED <<projects, ledgers, entries, reads, bookSide, retired, views>>

JoinInit ==
    /\ projects = <<>>
    /\ project_members = {}
    /\ ledgers = <<>>
    /\ entries = <<>>
    /\ txResult = NoResult
    /\ totalsResult = NoResult
    /\ businessesResult = NoResult
    /\ booksResult = NoResult
    /\ fetched = NoResult
    /\ clock = Len(entries) + 1
    /\ join = [u \in Users |-> IdleJoin]
    /\ retired = {}
    /\ currentUser = "u1"
    /\ AppOpened

JoinNext ==
    \/ \E u \in Users, c \in Codes : CreateBusiness(u, c)
    \/ \E b \in 1..MaxBusinesses, c \in Codes : RotateBusinessCode(b, c)
    \/ \E u \in Users, c \in Codes : JoinLookup(u, c)
    \/ \E u \in Users : JoinInsert(u)

SpecJoin == JoinInit /\ [][JoinNext]_vars

(***************************************************************************)
(* Properties of the join code (specification SpecJoin).                   *)
(***************************************************************************)
\* u's joinBusiness call performs its lookup in this step
LookupStep(u) == join[u].pc = "idle" /\ join'[u] # join[u]

\* u's joinBusiness call performs its insert in this step
InsertStep(u) == join[u].pc = "insert" /\ join'[u].pc = "idle"

\* C7: last rotation wins: a joinBusiness call whose code is no longer the
\* business's current join code when the membership row is inserted adds no
\* membership and returns 'Invalid joining code.'.
C7_LastRotationWins ==
    [][\A u \in Users :
          (InsertStep(u) /\ CodeOf(join[u].project) # join[u].code) =>
              (project_members' = project_members /\ join'[u].result = InvalidCode)]_vars

\* C8 as stated: once a rotation has replaced a code, a joinBusiness call
\* with that code returns 'Invalid joining code.' and adds no membership.
C8_RetiredCodeNeverAdmits ==
    [][\A u \in Users :
          (LookupStep(u) /\ join'[u].code \in retired) =>
              /\ join'[u].pc = "idle"
              /\ join'[u].result = InvalidCode
              /\ project_members' = project_members]_vars

\* C8 as amended: a joinBusiness call with a code that is the current join
\* code of no business (a replaced code that no later draw has brought back)
\* returns 'Invalid joining code.' and adds no membership, and a call that
\* finds a business finds one whose single current code is the code given.
C8_OnlyCurrentCodeAdmits ==
    [][\A u \in Users :
          /\ (LookupStep(u)
                /\ \A i \in 1..Len(projects) : projects[i].join_code # join'[u].code) =>
                 /\ join'[u].pc = "idle"
                 /\ join'[u].result = InvalidCode
                 /\ project_members' = project_members
          /\ (LookupStep(u) /\ join'[u].pc = "insert") =>
                 CodeOf(join'[u].project) = join'[u].code]_vars

\* two rotations have replaced both codes in turn, and a call with the
\* replaced code was refused
C8_Witness ==
    \E u \in Users :
        /\ Len(projects) = 1
        /\ retired = Codes
        /\ join[u].pc = "idle"
        /\ join[u].result = InvalidCode
        /\ join[u].code \in retired
        /\ projects[1].join_code # join[u].code
        /\ project_members = {}

(***************************************************************************)
(* The owner-only controls of the views: rename and delete on the          *)
(* dashboard, the two rotations in the business view.                      *)
(***************************************************************************)
\* the most businesses in the store while the views are exercised
MaxViewBusinesses == 1

\* from('projects').update({ name }).eq('id', id)
updateBusiness(id, name) ==
    [i \in 1..Len(projects) |->
        IF projects[i].id = id THEN [projects[i] EXCEPT !.name = name] ELSE projects[i]]

\* from('projects').delete().eq('id', id)
deleteBusiness(id) == SelectSeq(projects, LAMBDA p : p.id # id)

\* the store's cascade from a deleted business to its memberships, books
\* and entries
CascadeMembers(id) == { m \in project_members : m.project_id # id }

CascadeLedgers(id) == SelectSeq(ledgers, LAMBDA l : l.project_id # id)

CascadeEntries(id) ==
    SelectSeq(entries, LAMBDA r :
        \E k \in 1..Len(ledgers) :
            ledgers[k].id = r.ledger_id /\ ledgers[k].project_id # id)

\* {!b.isShared && (...)}: the edit and delete buttons of a card
OffersOwnerButtons(b) == ~b.isShared

\* DashboardView.handleEditClick on the card's edit button
HandleEditClick(i) ==
    /\ i \in 1..Len(Cards)
    /\ OffersOwnerButtons(Cards[i])
    /\ dashboard' = Some([dashboard[1] EXCEPT !.editingId = Cards[i].id])
    /\ UNCHANGED <<store, reads, join, bookSide, retired, currentUser, user, viewState, detail, request>>

\* DashboardView.handleCreate in update mode (editingId set), then loadData
HandleCreate(newBizName) ==
    /\ dashboard # NoResult
    /\ dashboard[1].editingId # 0
    /\ projects' = updateBusiness(dashboard[1].editingId, newBizName)
    /\ request' = [op |-> "rename", id |-> dashboard[1].editingId, by |-> currentUser]
    /\ UNCHANGED <<project_members, ledgers, entries>>
    /\ UNCHANGED <<reads, join, bookSide, retired, currentUser, user, viewState, detail>>
    /\ dashboard' = Some([dashboard[1] EXCEPT
                             !.editingId = 0,
                             !.businesses = getBusinesses(currentUser)',
                             !.loading = FALSE])

\* DashboardView.handleDeleteClick on the card's delete button
HandleDeleteClick(i) ==
    /\ i \in 1..Len(Cards)
    /\ OffersOwnerButtons(Cards[i])
    /\ dashboard' = Some([dashboard[1] EXCEPT
                             !.businessToDelete = Some([id |-> Cards[i].id,
                                                        name |-> Cards[i].name]),
                             !.deleteError = ""])
    /\ UNCHANGED <<store, reads, join, bookSide, retired, currentUser, user, viewState, detail, request>>

\* DashboardView.confirmDelete with the name typed, then loadData
ConfirmDelete(deleteConfirmationName) ==
    /\ dashboard # NoResult
    /\ dashboard[1].businessToDelete # <<>>
    /\ UNCHANGED <<reads, join, bookSide, retired, currentUser, user, viewState, detail>>
    /\ LET b == dashboard[1].businessToDelete[1] IN
       IF deleteConfirmationName # b.name
       THEN /\ dashboard' = Some([dashboard[1] EXCEPT !.deleteError = NameMismatch])
            /\ UNCHANGED <<store, request>>
       ELSE /\ projects' = deleteBusiness(b.id)
            /\ project_members' = CascadeMembers(b.id)
            /\ ledgers' = CascadeLedgers(b.id)
            /\ entries' = CascadeEntries(b.id)
            /\ request' = [op |-> "delete", id |-> b.id, by |-> currentUser]
            /\ dashboard' = Some([dashboard[1] EXCEPT
                                     !.businessToDelete = <<>>,
                                     !.businesses = getBusinesses(currentUser)',
                                     !.loading = FALSE])

\* a joinBusiness call whose lookup and insert no other request separates
JoinBusiness(u, code) ==
    /\ join[u].pc = "idle"
    /\ JoinFound(code)
    /\ project_members' =
          project_members \cup {MemberRow(u, CHOOSE i \in ProjectsWithCode(code) : TRUE)}
    /\ UNCHANGED <<projects, ledgers, entries, reads, join, bookSide, retired, views>>

\* users create and join businesses until the app sends its first
\* owner-only request
Populating == request = NoRequest

ViewsInit ==
    /\ projects = <<>>
    /\ project_members = {}
    /\ ledgers = <<>>
    /\ entries = <<>>
    /\ txResult = NoResult
    /\ totalsResult = NoResult
    /\ businessesResult = NoResult
    /\ booksResult = NoResult
    /\ fetched = NoResult
    /\ clock = Len(entries) + 1
    /\ join = [u \in Users |-> IdleJoin]
    /\ retired = {}
    /\ currentUser \in Users
    /\ AppOpened

ViewsNext ==
    \/ \E u \in Users, c \in Codes :
          Populating /\ Len(projects) < MaxViewBusinesses /\ CreateBusiness(u, c)
    \/ \E u \in Users, c \in Codes : Populating /\ JoinBusiness(u, c)
    \/ DashboardLoadData
    \/ \E i \in 1..(2 * MaxViewBusinesses) : HandleEditClick(i)
    \/ \E n \in Names : HandleCreate(n)
    \/ \E i \in 1..(2 * MaxViewBusinesses) : HandleDeleteClick(i)
    \/ \E n \in Names : ConfirmDelete(n)
    \/ \E i \in 1..(2 * MaxViewBusinesses) : OnSelectBusiness(i)
    \/ \E c \in Codes : BusinessDetailLoadData(c)
    \/ \E c \in Codes : HandleRotateCode(c)
    \/ OnBack

SpecViews == ViewsInit /\ [][ViewsNext]_vars

(***************************************************************************)
(* Properties of the owner-only controls (specification SpecViews).        *)
(***************************************************************************)
\* the viewer owns the business with this id, if the store still holds it
ViewerOwns(id) ==
    \A i \in 1..Len(projects) : projects[i].id = id => projects[i].owner_id = currentUser

\* every control the views offer or hold open is on a business of the viewer
OwnerControlsOffered ==
    /\ \A i \in 1..Len(Cards) :
          OffersOwnerButtons(Cards[i]) =>
              (Cards[i].userId = currentUser /\ ViewerOwns(Cards[i].id))
    /\ (dashboard # NoResult /\ dashboard[1].editingId # 0) =>
          ViewerOwns(dashboard[1].editingId)
    /\ (dashboard # NoResult /\ dashboard[1].businessToDelete # <<>>) =>
          ViewerOwns(dashboard[1].businessToDelete[1].id)
    /\ (DetailShown /\ isOwner) => ViewerOwns(detail[1].businessId)

\* every rename, delete or rotation a view sends is sent by the viewer on a
\* business the viewer owns
OwnerRequestsInvoked ==
    (request' # request) =>
        /\ request'.op \in {"rename", "delete", "rotate"}
        /\ request'.by = currentUser
        /\ ViewerOwns(request'.id)

\* C9: renaming a business, deleting a business and rotating its join code
\* (the automatic rotation of BusinessDetailView.loadData and the manual
\* rotate button) are offered and invoked only when the viewer's id equals
\* the owner's id; a viewer who is only a member reaches none of the three.
C9_OwnerOnlyCapabilities == []OwnerControlsOffered /\ [][OwnerRequestsInvoked]_vars

\* a viewer who is only a member has opened the shared business: loadData
\* has run without rotating and no rotate button is shown
C9_Witness ==
    /\ Len(projects) = 1
    /\ projects[1].owner_id # currentUser
    /\ MemberRow(currentUser, projects[1].id) \in project_members
    /\ DetailShown
    /\ detail[1].businessId = projects[1].id
    /\ ~isOwner
    /\ request = NoRequest
    /\ retired = {}

\* C10: for every business in the result of getBusinesses(userId), as the
\* dashboard holds it, isShared is true exactly when userId is not the
\* business's owner, and then ownerEmail is the owner's email; for a business
\* the user owns, isShared is false.
C10_SharedIffNotOwner ==
    \A i \in 1..Len(Cards) :
        /\ Cards[i].isShared <=> (currentUser # Cards[i].userId)
        /\ Cards[i].isShared => Cards[i].ownerEmail = Email(Cards[i].userId)

(***************************************************************************)
(* Transactions: addTransaction, updateTransaction, deleteTransaction and  *)
(* BookDetailView, which reads the book back after every change.           *)
(***************************************************************************)
\* the most entries ever added while the book view is exercised
MaxLedgerTx == 2

\* the time of day left in the form while the book view is exercised
FormTimes == {540}

\* from('entries').insert([{ ledger_id, amount, type, date, time, ... }]):
\* the store assigns id and created_at
addTransaction(tx) ==
    Append(entries, [id |-> clock, ledger_id |-> tx.bookId, amount |-> tx.amount,
                     type |-> tx.type, date |-> tx.date, time |-> tx.time,
                     created_at |-> clock])

\* an update that also writes the createdAt it was handed
updateTransactionWithCreatedAt(tx) ==
    [i \in 1..Len(entries) |->
        IF entries[i].id = tx.id
        THEN [entries[i] EXCEPT !.amount = tx.amount, !.type = tx.type,
                                !.date = tx.date, !.time = tx.time,
                                !.created_at = tx.createdAt]
        ELSE entries[i]]

\* from('entries').update({ amount, type, date, time, ... }).eq('id', tx.id)
updateTransaction(tx) ==
    [i \in 1..Len(entries) |->
        IF entries[i].id = tx.id
        THEN [entries[i] EXCEPT !.amount = tx.amount, !.type = tx.type,
                                !.date = tx.date, !.time = tx.time]
        ELSE entries[i]]

\* .select().single() after the update: an error when no row has the id
UpdateFinds(id) == \E i \in 1..Len(entries) : entries[i].id = id

\* from('entries').delete().eq('id', id)
deleteTransaction(id) == SelectSeq(entries, LAMBDA r : r.id # id)

\* the state BookDetailView is mounted with
BookMounted(bookId) ==
    [bookId |-> bookId, book |-> <<>>, transactions |-> <<>>, loading |-> TRUE,
     showAddModal |-> FALSE, editingTxId |-> 0]

\* App.onSelectBook: viewState BOOK_DETAIL; BusinessDetailView unmounts
OnSelectBook(i) ==
    /\ DetailShown
    /\ i \in 1..Len(detail[1].books)
    /\ detail' = NoResult
    /\ bookView' = Some(BookMounted(detail[1].books[i].id))
    /\ viewState' = BOOK_DETAIL(viewState.businessId, detail[1].books[i].id)
    /\ UNCHANGED <<store, reads, booksResult, fetched, clock, join, retired,
                   currentUser, user, dashboard, request>>

\* the state BookDetailView.loadData leaves: getBookTotals, then, when the
\* book exists, getTransactionsWithBalance
BookLoaded(v, b, data) ==
    IF b = <<>> THEN [v EXCEPT !.loading = FALSE]
    ELSE [v EXCEPT !.book = b,
                   !.transactions = getTransactionsWithBalance(data),
                   !.loading = FALSE]

\* loadData run at the end of a step: it reads the store as the step leaves it
LoadsBook(v) ==
    \E b \in {getBookTotals(v.bookId)'}, data \in {EntriesOf(v.bookId)'} :
        bookView' = Some(BookLoaded(v, b, data))

\* BookDetailView.loadData on mount
BookLoadData ==
    /\ bookView # NoResult
    /\ UNCHANGED <<store, reads, booksResult, fetched, clock, join, retired, views>>
    /\ \E v \in {bookView[1]} : LoadsBook(v)

\* what BookDetailView renders once the book is loaded
BookShown == bookView # NoResult /\ bookView[1].book # <<>>

\* BookDetailView.openAddModal
OpenAddModal ==
    /\ BookShown
    /\ bookView' = Some([bookView[1] EXCEPT !.editingTxId = 0, !.showAddModal = TRUE])
    /\ UNCHANGED <<store, reads, booksResult, fetched, clock, join, retired, views>>

\* BookDetailView.openEditModal on a listed transaction
OpenEditModal(i) ==
    /\ BookShown
    /\ i \in 1..Len(bookView[1].transactions)
    /\ bookView' = Some([bookView[1] EXCEPT
                            !.editingTxId = bookView[1].transactions[i].id,
                            !.showAddModal = TRUE])
    /\ UNCHANGED <<store, reads, booksResult, fetched, clock, join, retired, views>>

\* BookDetailView.handleAddSubmit with the form's amount, type, date and time
HandleAddSubmit(amount, txType, txDate, txTime) ==
    /\ BookShown
    /\ bookView[1].showAddModal
    /\ \E v \in {bookView[1]} :
       LET tx == [id |-> v.editingTxId, bookId |-> v.bookId, amount |-> amount,
                  type |-> txType, date |-> txDate, time |-> txTime, createdAt |-> 0]
       IN IF v.editingTxId # 0
          THEN /\ entries' = updateTransaction(tx)
               /\ clock' = clock
               /\ UNCHANGED <<projects, project_members, ledgers>>
               /\ IF UpdateFinds(tx.id)
                  THEN LoadsBook([v EXCEPT !.showAddModal = FALSE])
                  ELSE bookView' = bookView
          ELSE /\ clock <= MaxLedgerTx
               /\ entries' = addTransaction(tx)
               /\ clock' = clock + 1
               /\ UNCHANGED <<projects, project_members, ledgers>>
               /\ LoadsBook([v EXCEPT !.showAddModal = FALSE])
    /\ UNCHANGED <<reads, booksResult, fetched, join, retired, views>>

\* BookDetailView.handleDelete with the confirmation accepted, then loadData
HandleDelete(i) ==
    /\ BookShown
    /\ i \in 1..Len(bookView[1].transactions)
    /\ entries' = deleteTransaction(bookView[1].transactions[i].id)
    /\ UNCHANGED <<projects, project_members, ledgers, clock>>
    /\ \E v \in {bookView[1]} : LoadsBook(v)
    /\ UNCHANGED <<reads, booksResult, fetched, join, retired, views>>

\* the app just opened on a business of u1 that has one empty book
LedgerInit ==
    /\ OneBusiness
    /\ ledgers = <<[id |-> 1, project_id |-> 1, created_at |-> 1]>>
    /\ entries = <<>>
    /\ txResult = NoResult
    /\ totalsResult = NoResult
    /\ businessesResult = NoResult
    /\ booksResult = NoResult
    /\ fetched = NoResult
    /\ clock = Len(entries) + 1
    /\ currentUser = "u1"
    /\ AppOpened

LedgerNext ==
    \/ DashboardLoadData
    \/ OnSelectBusiness(1)
    \/ \E c \in Codes : BusinessDetailLoadData(c)
    \/ OnSelectBook(1)
    \/ BookLoadData
    \/ OpenAddModal
    \/ \E i \in 1..MaxLedgerTx : OpenEditModal(i)
    \/ \E a \in Amounts, ty \in TxTypes, d \in Dates, t \in FormTimes :
          HandleAddSubmit(a, ty, d, t)
    \/ \E i \in 1..MaxLedgerTx : HandleDelete(i)

SpecLedger == LedgerInit /\ [][LedgerNext]_vars

(***************************************************************************)
(* Properties of the transactions (specification SpecLedger).              *)
(***************************************************************************)
\* C11: for all transaction sets of a book, the totalIn and the totalOut
\* computed by the book aggregation are each >= 0 (here: the summary
\* getBookTotals hands to BookDetailView).
C11_TotalsNonNegative ==
    BookShown => (bookView[1].book[1].totalIn >= 0 /\ bookView[1].book[1].totalOut >= 0)

\* C12: a transaction with OUT direction and a negative amount is rejected:
\* it is never stored and never appears among the transactions that carry a
\* running balance.
C12_NegativeOutRejected ==
    /\ \A i \in 1..Len(entries) : ~(entries[i].type = "OUT" /\ entries[i].amount < 0)
    /\ BookShown =>
          \A i \in 1..Len(bookView[1].transactions) :
              ~(bookView[1].transactions[i].type = "OUT"
                  /\ bookView[1].transactions[i].amount < 0)

\* an entry whose amount is a non-negative number
WellFormed(t) == t.amount >= 0

\* C13: an entry whose amount is not a non-negative number is skipped by the
\* balance computation: the well-formed entries are listed in the order and
\* with the running balances they have without it, and the totals are those
\* of the well-formed entries.
C13_MalformedSkipped ==
    BookShown =>
        LET wf == SelectSeq(EntriesOf(bookView[1].bookId), WellFormed) IN
        /\ SelectSeq(bookView[1].transactions, WellFormed) = getTransactionsWithBalance(wf)
        /\ bookView[1].book[1].totalIn = AmountOfType(wf, "IN")
        /\ bookView[1].book[1].totalOut = AmountOfType(wf, "OUT")

\* what a step leaves of the entries it found: the id, the creation
\* timestamp and the owning book
KeepsIdentity ==
    /\ \A i \in 1..Len(entries), j \in 1..Len(entries') :
          entries'[j].id = entries[i].id =>
             /\ entries'[j].created_at = entries[i].created_at
             /\ entries'[j].ledger_id = entries[i].ledger_id
    /\ Len(entries') = Len(entries) =>
          \A i \in 1..Len(entries) : entries'[i].id = entries[i].id

\* C19: no step, and so no sequence of edits through the form (which hands
\* updateTransaction a createdAt of 0), changes the id, the creation
\* timestamp or the owning book of a stored transaction.
C19_EditKeepsIdentity == [][KeepsIdentity]_vars

\* C19 witness: the edit form has been submitted for a transaction of a
\* full book, and the transaction is stored with the timestamp of its insertion
C19_Witness ==
    /\ BookShown
    /\ bookView[1].editingTxId # 0
    /\ ~bookView[1].showAddModal
    /\ Len(entries) = MaxLedgerTx
    /\ \E i \in 1..Len(entries) :
          /\ entries[i].id = bookView[1].editingTxId
          /\ entries[i].created_at = entries[i].id
          /\ entries[i].created_at # 0

MaxReadTx == 2

\* creation instants of the books
CreatedAts == {1, 2}

ReadData == [type : TxTypes, date : Dates]

ReadsInit ==
    /\ OneBusiness
    /\ \E n \in 0..MaxBooks : \E c \in [1..n -> CreatedAts] :
          /\ ledgers = [i \in 1..n |-> [id |-> i, project_id |-> 1, created_at |-> c[i]]]
          /\ \E m \in 0..(IF n = 0 THEN 0 ELSE MaxReadTx) :
             \E f \in [1..m -> ReadData], l \in [1..m -> 1..n] :
                entries = [i \in 1..m |->
                              [id |-> i, ledger_id |-> l[i], amount |-> 2,
                               type |-> f[i].type, date |-> f[i].date, time |-> 540,
                               created_at |-> i]]
    /\ txResult = NoResult
    /\ totalsResult = NoResult
    /\ businessesResult = NoResult
    /\ booksResult = NoResult
    /\ fetched = NoResult
    /\ clock = Len(entries) + 1
    /\ currentUser = "u1"
    /\ AppOpened

ReadsNext ==
    \/ GetTransactionsWithBalance(1)
    \/ GetBookTotals(1)
    \/ GetBooks(1)
    \/ GetBusinesses(currentUser)

SpecReads == ReadsInit /\ [][ReadsNext]_vars

(***************************************************************************)
(* Properties of the reads (specification SpecReads).                      *)
(***************************************************************************)
BookExists(bookId) == \E i \in 1..Len(ledgers) : ledgers[i].id = bookId

ZeroTotals(b) == b.totalIn = 0 /\ b.totalOut = 0 /\ b.balance = 0

\* C16: for a book that holds no transaction, getTransactionsWithBalance
\* returns the empty sequence, and getBookTotals and getBooks return the book
\* with totalIn = 0, totalOut = 0, balance = 0.
C16_EmptyBook ==
    \A bookId \in 1..MaxBooks :
        (BookExists(bookId) /\ EntriesOf(bookId) = <<>>) =>
            /\ (bookId = 1 /\ txResult # NoResult) => txResult[1] = <<>>
            /\ getTransactionsWithBalance(EntriesOf(bookId)) = <<>>
            /\ (bookId = 1 /\ totalsResult # <<>>) => ZeroTotals(totalsResult[1])
            /\ booksResult # NoResult =>
                  \E i \in 1..Len(booksResult[1]) :
                      booksResult[1][i].id = bookId /\ ZeroTotals(booksResult[1][i])

\* C16 witness: book 1 is empty beside a book that is not, and the three
\* services have answered
C16_Witness ==
    /\ BookExists(1)
    /\ EntriesOf(1) = <<>>
    /\ entries # <<>>
    /\ txResult # NoResult
    /\ totalsResult # <<>>
    /\ booksResult # NoResult

\* the place of a book in the ledgers fetched for its business
FetchedPlace(businessId, bookId) ==
    CHOOSE i \in 1..Len(LedgersOf(businessId)) : LedgersOf(businessId)[i].id = bookId

NewestFirstStable(business) ==
    /\ Len(business.books) = Len(LedgersOf(business.id))
    /\ \A i \in 1..Len(LedgersOf(business.id)) :
          \E j \in 1..Len(business.books) :
              business.books[j].id = LedgersOf(business.id)[i].id
    /\ \A i, j \in 1..Len(business.books) :
          i < j =>
             /\ business.books[i].createdAt >= business.books[j].createdAt
             /\ business.books[i].createdAt = business.books[j].createdAt
                   => FetchedPlace(business.id, business.books[i].id)
                         < FetchedPlace(business.id, business.books[j].id)

\* C18: in every summary returned by getBusinesses the books are all the
\* books of the business, newest first by createdAt, and books created at
\* the same instant stand in the order they were fetched in.
C18_BooksNewestFirst ==
    businessesResult # NoResult =>
        \A i \in 1..Len(businessesResult[1]) : NewestFirstStable(businessesResult[1][i])

\* C18 witness: a summary with two books created at the same instant
C18_Witness ==
    /\ businessesResult # NoResult
    /\ Len(businessesResult[1]) = 1
    /\ Len(ledgers) = MaxBooks
    /\ \E i, j \in 1..Len(businessesResult[1][1].books) :
          /\ i < j
          /\ businessesResult[1][1].books[i].createdAt
                = businessesResult[1][1].books[j].createdAt

\* what a read leaves behind: the four tables as they were, and the fetched
\* list txs in the order it was fetched in
ReadOnly ==
    /\ store' = store
    /\ retired' = retired
    /\ fetched' # NoResult => fetched'[1] = MapRows(EntriesOf(1))

\* C20: every call of getTransactionsWithBalance, getBookTotals, getBooks and
\* getBusinesses leaves the stored businesses, members, books, transactions
\* and join codes unchanged, and the list fetched by
\* getTransactionsWithBalance keeps its fetched order.
C20_ReadsChangeNothing == [][ReadOnly]_vars

\* C20 witness: the four services have answered, and the entries of book 1
\* were fetched newest first
C20_Witness ==
    /\ txResult # NoResult
    /\ totalsResult # <<>>
    /\ booksResult # NoResult
    /\ businessesResult # NoResult
    /\ fetched # NoResult
    /\ Len(fetched[1]) = MaxReadTx
    /\ fetched[1][1].date > fetched[1][MaxReadTx].date
    /\ txResult[1][1].id = fetched[1][1].id

(***************************************************************************)
(* The scenario specification: the three transactions of Scenario 1 are    *)
(* added to an empty book in any order, and the book is read.              *)
(***************************************************************************)
\* 2024-01-01 is day 1 and 2024-01-02 day 2; 09:00, 10:00 and 08:00 are the
\* minutes 540, 600 and 480 of the day
Scenario1 ==
    <<[type |-> "IN", amount |-> 100, date |-> 1, time |-> 540],
      [type |-> "OUT", amount |-> 40, date |-> 1, time |-> 600],
      [type |-> "IN", amount |-> 10, date |-> 2, time |-> 480]>>

Stored(k) == \E i \in 1..Len(entries) : entries[i].amount = Scenario1[k].amount

\* addTransaction called with the k-th transaction of the scenario
AddScenarioTx(k) ==
    /\ ~Stored(k)
    /\ entries' = addTransaction([bookId |-> 1, amount |-> Scenario1[k].amount,
                                  type |-> Scenario1[k].type, date |-> Scenario1[k].date,
                                  time |-> Scenario1[k].time])
    /\ clock' = clock + 1
    /\ UNCHANGED <<projects, project_members, ledgers, reads, booksResult, fetched,
                   bookView, join, retired, views>>

ScenarioInit ==
    /\ OneBusiness
    /\ ledgers = <<[id |-> 1, project_id |-> 1, created_at |-> 1]>>
    /\ entries = <<>>
    /\ txResult = NoResult
    /\ totalsResult = NoResult
    /\ businessesResult = NoResult
    /\ booksResult = NoResult
    /\ fetched = NoResult
    /\ clock = 1
    /\ currentUser = "u1"
    /\ AppOpened

ScenarioNext ==
    \/ \E k \in 1..Len(Scenario1) : AddScenarioTx(k)
    \/ GetTransactionsWithBalance(1)
    \/ GetBookTotals(1)

SpecScenario == ScenarioInit /\ [][ScenarioNext]_vars

RunningBalances(result) == [i \in 1..Len(result) |-> result[i].runningBalance]

\* every read of the complete scenario book
ScenarioReads(balances, totalIn, totalOut, balance) ==
    /\ (Len(entries) = Len(Scenario1) /\ txResult' # txResult)
          => RunningBalances(txResult'[1]) = balances
    /\ (Len(entries) = Len(Scenario1) /\ totalsResult' # totalsResult)
          => /\ totalsResult'[1].totalIn = totalIn
             /\ totalsResult'[1].totalOut = totalOut
             /\ totalsResult'[1].balance = balance

\* C15 as stated: on the book of Scenario 1 the running balances, newest
\* first, are 110, 60, 100, and the totals are totalIn 110, totalOut 40,
\* balance 70.
C15_ScenarioAsStated ==
    [][ScenarioReads(<<110, 60, 100>>, 110, 40, 70)]_vars

\* C15 as the code computes it: on the book of Scenario 1, in whatever order
\* the three transactions were stored, the running balances, newest first,
\* are 70, 60, 100, and the totals are totalIn 110, totalOut 40, balance 70.
C15_ScenarioBalances ==
    [][ScenarioReads(<<70, 60, 100>>, 110, 40, 70)]_vars

\* C15 witness: the complete book, stored newest first, has been read by both
\* services
C15_Witness ==
    /\ Len(entries) = Len(Scenario1)
    /\ entries[1].amount = 10
    /\ entries[3].amount = 100
    /\ txResult # NoResult
    /\ Len(txResult[1]) = Len(Scenario1)
    /\ totalsResult # <<>>
    /\ totalsResult[1].totalIn = 110

(***************************************************************************)
(* Entries of one timestamp (specification Spec).                          *)
(***************************************************************************)
\* the place of a transaction in the fetched list txs
PlaceFetched(id) == CHOOSE k \in 1..Len(fetched[1]) : fetched[1][k].id = id

\* the signed amounts of out[i] and of everything listed after it, which is
\* the prefix of the ascending order that ends at out[i]
RECURSIVE SignedFrom(_, _)
SignedFrom(out, i) ==
    IF i > Len(out) THEN 0 ELSE Signed(out[i]) + SignedFrom(out, i + 1)

\* C21: transactions of one date and time appear in the output in reverse
\* fetch order (fetch order in the ascending pass), and each carries the
\* running balance of the ascending prefix that ends at its own position.
C21_TiesKeepFetchOrder ==
    (txResult # NoResult /\ fetched # NoResult) =>
        LET out == txResult[1] IN
        /\ \A i, j \in 1..Len(out) :
              (i < j /\ Timestamp(out[i]) = Timestamp(out[j]))
                 => PlaceFetched(out[i].id) > PlaceFetched(out[j].id)
        /\ \A i \in 1..Len(out) : out[i].runningBalance = SignedFrom(out, i)

\* C21 witness: three fetched entries, the first and the last of one
\* timestamp and of different signed amounts, an earlier one between them
C21_Witness ==
    /\ txResult # NoResult /\ fetched # NoResult
    /\ Len(fetched[1]) = 3
    /\ Timestamp(fetched[1][1]) = Timestamp(fetched[1][3])
    /\ Timestamp(fetched[1][2]) < Timestamp(fetched[1][1])
    /\ Signed(fetched[1][1]) # Signed(fetched[1][3])
    /\ txResult[1][1].id = fetched[1][3].id
    /\ txResult[1][2].id = fetched[1][1].id

(***************************************************************************)
(* Joining with a current code (specification SpecJoin).                   *)
(***************************************************************************)
\* what the two steps of a joinBusiness call do
JoinAdmits(u) ==
    /\ LookupStep(u) =>
          IF ProjectsWithCode(join'[u].code) # {}
          THEN /\ join'[u].pc = "insert"
               /\ join'[u].project \in ProjectsWithCode(join'[u].code)
          ELSE /\ join'[u].result = InvalidCode
               /\ project_members' = project_members
    /\ (InsertStep(u) /\ MemberRow(u, join[u].project) \notin project_members) =>
          /\ project_members' = project_members \cup {MemberRow(u, join[u].project)}
          /\ join'[u].result = Joined

\* C24: a joinBusiness call whose code is the current join code of a
\* business finds such a business and, for a user who is not yet a member,
\* adds exactly that membership with role editor and succeeds; a call whose
\* code no business holds answers 'Invalid joining code.' and adds nothing;
\* also when two businesses hold the same code.
C24_CurrentCodeAdmits == [][\A u \in Users : JoinAdmits(u)]_vars

(***************************************************************************)
(* The businesses of the dashboard (specification SpecViews).              *)
(***************************************************************************)
\* C25: whatever businesses the users have created and joined, the result
\* of getBusinesses(userId) that the dashboard holds lists each business at
\* most once, so that the sums of the dashboard count it once.
C25_EachBusinessOnce ==
    \A i, j \in 1..Len(Cards) : Cards[i].id = Cards[j].id => i = j

(***************************************************************************)
(* The code specification: createBusiness with the join code it generates. *)
(***************************************************************************)
\* Math.random() * 900000 falls in one of the 900000 unit cells of
\* [0, 900000); the cells drawn here are the ends and two inner ones
RandomCells == {0, 1, 99999, 450000, 899998, 899999}

\* a generator that forgets the offset
FloorOfRandomOnly(cell) == cell

\* Math.floor(100000 + Math.random() * 900000)
GenerateJoinCode(cell) == 100000 + cell

\* Number.prototype.toString(): the decimal digits, most significant first
RECURSIVE toString(_)
toString(n) == IF n < 10 THEN <<n>> ELSE Append(toString(n \div 10), n % 10)

\* createBusiness with the code drawn inside it
CreateBusinessWithCode(u, cell) == CreateBusiness(u, toString(GenerateJoinCode(cell)))

\* handleJoin: if (!joinCode || joinCode.length !== 6) return
PassesLengthCheck(joinCode) == joinCode # <<>> /\ Len(joinCode) = 6

CodeNext == \E u \in Users, cell \in RandomCells : CreateBusinessWithCode(u, cell)

SpecCode == JoinInit /\ [][CodeNext]_vars

\* the number a string of decimal digits denotes
RECURSIVE ValueOf(_)
ValueOf(digits) ==
    IF digits = <<>> THEN 0
    ELSE 10 * ValueOf(SubSeq(digits, 1, Len(digits) - 1)) + digits[Len(digits)]

\* C22: every join code stored by createBusiness is a string of 6 decimal
\* digits with no leading zero, denoting an integer in 100000..999999, and
\* passes the length check of handleJoin.
C22_SixDigitCode ==
    \A i \in 1..Len(projects) :
        /\ Len(projects[i].join_code) = 6
        /\ \A k \in 1..6 : projects[i].join_code[k] \in 0..9
        /\ projects[i].join_code[1] # 0
        /\ ValueOf(projects[i].join_code) \in 100000..999999
        /\ PassesLengthCheck(projects[i].join_code)

\* C22 witness: the smallest and the largest draw have both been stored
C22_Witness ==
    /\ Len(projects) = MaxBusinesses
    /\ \E i, j \in 1..Len(projects) :
          /\ projects[i].join_code = <<1, 0, 0, 0, 0, 0>>
          /\ projects[j].join_code = <<9, 9, 9, 9, 9, 9>>

(***************************************************************************)
(* The rotation specification: a business of u1 that u2 has joined, opened *)
(* by either of them in BusinessDetailView, where books are added.         *)
(***************************************************************************)
\* from('ledgers').insert([{ project_id: businessId, name }])
createBook(businessId) ==
    Append(ledgers, [id |-> Len(ledgers) + 1, project_id |-> businessId,
                     created_at |-> Len(ledgers) + 1])

\* BusinessDetailView.handleAddBook with a name typed: createBook, then
\* loadData on the store that holds the new book
HandleAddBook(newCode) ==
    /\ DetailShown
    /\ Len(ledgers) < MaxBooks
    /\ getBusiness(detail[1].businessId) # <<>>
    /\ ledgers' = createBook(detail[1].businessId)
    /\ UNCHANGED <<project_members, entries, reads, join, bookSide, currentUser, user, viewState, dashboard>>
    /\ \E v \in {detail[1]}, found \in {getBusiness(detail[1].businessId)[1]} :
       \E booksData \in {getBooks(v.businessId)'} :
          IF AutoRotates(found)
          THEN /\ projects' = rotate_project_code(v.businessId, newCode)
               /\ retired' = Retire(v.businessId, newCode)
               /\ request' = [op |-> "rotate", id |-> v.businessId, by |-> currentUser]
               /\ detail' = Some([v EXCEPT
                                     !.business = Some(DetailBusiness(
                                                          WithNewCode(found, newCode),
                                                          booksData)),
                                     !.books = booksData,
                                     !.loading = FALSE])
          ELSE /\ UNCHANGED <<projects, retired, request>>
               /\ detail' = Some([v EXCEPT
                                     !.business = Some(DetailBusiness(found, booksData)),
                                     !.books = booksData,
                                     !.loading = FALSE])

RotationInit ==
    /\ \E c \in Codes :
          projects = <<[id |-> 1, owner_id |-> "u1", name |-> "A", join_code |-> c]>>
    /\ project_members = {MemberRow("u2", 1)}
    /\ join = [u \in Users |-> IdleJoin]
    /\ retired = {}
    /\ ledgers = <<>>
    /\ entries = <<>>
    /\ txResult = NoResult
    /\ totalsResult = NoResult
    /\ businessesResult = NoResult
    /\ booksResult = NoResult
    /\ fetched = NoResult
    /\ clock = 1
    /\ currentUser \in Users
    /\ AppOpened

RotationNext ==
    \/ DashboardLoadData
    \/ OnSelectBusiness(1)
    \/ \E c \in Codes : BusinessDetailLoadData(c)
    \/ \E c \in Codes : HandleAddBook(c)
    \/ \E c \in Codes : HandleRotateCode(c)
    \/ OnBack

SpecRotation == RotationInit /\ [][RotationNext]_vars

\* a step in which BusinessDetailView.loadData runs to its end: the first
\* load of the mounted view, or the load that follows a created book
LoadDataRuns ==
    /\ detail # NoResult
    /\ detail' # NoResult
    /\ ~detail'[1].loading
    /\ detail[1].loading \/ ledgers' # ledgers

\* what one loadData does to the join code, for the owner and for a member
RotatesOnceForOwner ==
    LoadDataRuns =>
        LET businessId == detail[1].businessId
            found == getBusiness(businessId)[1]
            shown == detail'[1].business[1]
        IN IF currentUser = found.userId
           THEN \E c \in Codes :
                   /\ projects' = rotate_project_code(businessId, c)
                   /\ shown.joinCode = c
                   /\ request' = [op |-> "rotate", id |-> businessId, by |-> currentUser]
           ELSE /\ projects' = projects
                /\ retired' = retired
                /\ request' = request
                /\ shown.joinCode = CodeOf(businessId)

MaxLoads == 2

\* a run of loadData that has just called setLoading(true) and getBookTotals
LoadStarted == [pc |-> "totals", b |-> <<>>, txs |-> <<>>]

\* the view with one more run of loadData in flight
StartsLoad(v) == [v EXCEPT !.loading = TRUE, !.loads = Append(@, LoadStarted)]

\* useEffect(() => { loadData() }, [bookId])
MountLoad ==
    /\ bookView # NoResult
    /\ bookView[1].loads = <<>>
    /\ bookView' = Some(StartsLoad(bookView[1]))
    /\ UNCHANGED <<store, reads, booksResult, fetched, clock, join, retired, views>>

\* the store answers the getBookTotals of run k
ServeTotals(k) ==
    /\ bookView # NoResult
    /\ k \in 1..Len(bookView[1].loads)
    /\ bookView[1].loads[k].pc = "totals"
    /\ bookView' = Some([bookView[1] EXCEPT
                            !.loads[k].b = getBookTotals(bookView[1].bookId),
                            !.loads[k].pc = "totalsBack"])
    /\ UNCHANGED <<store, reads, booksResult, fetched, clock, join, retired, views>>

\* run k resumes after await getBookTotals: setBook(b) and the call of
\* getTransactionsWithBalance, or finally setLoading(false) when b is null
SetBook(k) ==
    /\ bookView # NoResult
    /\ k \in 1..Len(bookView[1].loads)
    /\ bookView[1].loads[k].pc = "totalsBack"
    /\ bookView' = Some(IF bookView[1].loads[k].b = <<>>
                        THEN [bookView[1] EXCEPT !.loading = FALSE,
                                                 !.loads[k].pc = "done"]
                        ELSE [bookView[1] EXCEPT !.book = bookView[1].loads[k].b,
                                                 !.loads[k].pc = "txs"])
    /\ UNCHANGED <<store, reads, booksResult, fetched, clock, join, retired, views>>

\* the store answers the getTransactionsWithBalance of run k
ServeTransactions(k) ==
    /\ bookView # NoResult
    /\ k \in 1..Len(bookView[1].loads)
    /\ bookView[1].loads[k].pc = "txs"
    /\ bookView' = Some([bookView[1] EXCEPT
                            !.loads[k].txs =
                                getTransactionsWithBalance(EntriesOf(bookView[1].bookId)),
                            !.loads[k].pc = "txsBack"])
    /\ UNCHANGED <<store, reads, booksResult, fetched, clock, join, retired, views>>

\* run k resumes after await getTransactionsWithBalance: setTransactions(txs)
\* and finally setLoading(false)
SetTransactions(k) ==
    /\ bookView # NoResult
    /\ k \in 1..Len(bookView[1].loads)
    /\ bookView[1].loads[k].pc = "txsBack"
    /\ bookView' = Some([bookView[1] EXCEPT
                            !.transactions = bookView[1].loads[k].txs,
                            !.loading = FALSE,
                            !.loads[k].pc = "done"])
    /\ UNCHANGED <<store, reads, booksResult, fetched, clock, join, retired, views>>

\* handleDelete on a listed transaction, confirmed: await deleteTransaction,
\* then loadData() without await
DeleteStartsLoad(i) ==
    /\ BookShown
    /\ i \in 1..Len(bookView[1].transactions)
    /\ Len(bookView[1].loads) < MaxLoads
    /\ entries' = deleteTransaction(bookView[1].transactions[i].id)
    /\ bookView' = Some(StartsLoad(bookView[1]))
    /\ UNCHANGED <<projects, project_members, ledgers, reads, booksResult, fetched, clock,
                   join, retired, views>>

\* handleAddSubmit of the add form: await addTransaction,
\* setShowAddModal(false), then await loadData()
SubmitStartsLoad(txType) ==
    /\ BookShown
    /\ bookView[1].showAddModal
    /\ bookView[1].editingTxId = 0
    /\ Len(bookView[1].loads) < MaxLoads
    /\ clock <= MaxLedgerTx
    /\ entries' = addTransaction([bookId |-> bookView[1].bookId, amount |-> 2,
                                  type |-> txType, date |-> 1, time |-> 540])
    /\ clock' = clock + 1
    /\ bookView' = Some(StartsLoad([bookView[1] EXCEPT !.showAddModal = FALSE]))
    /\ UNCHANGED <<projects, project_members, ledgers, reads, booksResult, fetched,
                   join, retired, views>>

\* another client of the same store adds a transaction to the book
OtherClientAdds(txType) ==
    /\ clock <= MaxLedgerTx
    /\ entries' = addTransaction([bookId |-> 1, amount |-> 2, type |-> txType,
                                  date |-> 1, time |-> 540])
    /\ clock' = clock + 1
    /\ UNCHANGED <<projects, project_members, ledgers, reads, booksResult, fetched,
                   bookView, join, retired, views>>

\* another client of the same store deletes a transaction of the book
OtherClientDeletes(i) ==
    /\ i \in 1..Len(entries)
    /\ entries' = deleteTransaction(entries[i].id)
    /\ UNCHANGED <<projects, project_members, ledgers, reads, booksResult, fetched, clock,
                   bookView, join, retired, views>>

\* BookDetailView just mounted on the one book of the business, which holds
\* one transaction
LoadInit ==
    /\ OneBusiness
    /\ ledgers = <<[id |-> 1, project_id |-> 1, created_at |-> 1]>>
    /\ entries = <<[id |-> 1, ledger_id |-> 1, amount |-> 2, type |-> "IN",
                    date |-> 1, time |-> 540, created_at |-> 1]>>
    /\ txResult = NoResult
    /\ totalsResult = NoResult
    /\ businessesResult = NoResult
    /\ booksResult = NoResult
    /\ fetched = NoResult
    /\ clock = Len(entries) + 1
    /\ currentUser = "u1"
    /\ AppAt(BOOK_DETAIL(1, 1))
    /\ dashboard = NoResult
    /\ detail = NoResult
    /\ request = NoRequest
    /\ bookView = Some([bookId |-> 1, book |-> <<>>, transactions |-> <<>>,
                        loading |-> TRUE, showAddModal |-> FALSE, editingTxId |-> 0,
                        loads |-> <<>>])

LoadNext ==
    \/ MountLoad
    \/ \E k \in 1..MaxLoads : ServeTotals(k)
    \/ \E k \in 1..MaxLoads : SetBook(k)
    \/ \E k \in 1..MaxLoads : ServeTransactions(k)
    \/ \E k \in 1..MaxLoads : SetTransactions(k)
    \/ OpenAddModal
    \/ \E ty \in TxTypes : SubmitStartsLoad(ty)
    \/ \E i \in 1..MaxLedgerTx : DeleteStartsLoad(i)
    \/ \E ty \in TxTypes : OtherClientAdds(ty)
    \/ \E i \in 1..MaxLedgerTx : OtherClientDeletes(i)

SpecLoad == LoadInit /\ [][LoadNext]_vars

\* every run of loadData the view has started has completed
LoadsCompleted ==
    /\ bookView # NoResult
    /\ bookView[1].loads # <<>>
    /\ \A k \in 1..Len(bookView[1].loads) : bookView[1].loads[k].pc = "done"

\* C26: when loadData has completed, the balance of the displayed book is the
\* running balance of the first listed transaction, or 0 when the list is
\* empty, whatever another client has written in the meantime.
C26_SummaryMatchesList ==
    (LoadsCompleted /\ BookShown) =>
        bookView[1].book[1].balance
            = (IF bookView[1].transactions = <<>> THEN 0
               ELSE bookView[1].transactions[1].runningBalance)

\* C27: once every run of loadData has completed, the view holds the book
\* and the transactions fetched by the run that started last.
C27_NewestLoadWins ==
    LoadsCompleted =>
        LET newest == bookView[1].loads[Len(bookView[1].loads)] IN
        /\ bookView[1].book = newest.b
        /\ newest.b # <<>> => bookView[1].transactions = newest.txs

(***************************************************************************)
(* The filter specification: BookDetailView loaded on a book with any      *)
(* entries, and the four filter inputs set in any order.                   *)
(***************************************************************************)
\* the most entries of the filtered book
MaxFilterTx == 2

\* useState(''): no start date, no end date
NoDate == 0

\* what the search box holds: nothing, a digit, the minus sign, a letter
SearchTerms == {<<>>, <<"2">>, <<"-">>, <<"x">>}

FilterTypes == {"ALL"} \cup TxTypes

DateInputs == {NoDate} \cup Dates

Digit(d) == <<"0", "1", "2", "3", "4", "5", "6", "7", "8", "9">>[d + 1]

\* t.amount.toString()
RECURSIVE AmountToString(_)
AmountToString(n) ==
    IF n < 0 THEN <<"-">> \o AmountToString(0 - n)
    ELSE IF n < 10 THEN <<Digit(n)>>
    ELSE Append(AmountToString(n \div 10), Digit(n % 10))

\* String.prototype.includes
Includes(s, term) ==
    \E i \in 1..(Len(s) - Len(term) + 1) : SubSeq(s, i, i + Len(term) - 1) = term

\* the note of the entries of the model: the form's note left empty
NoteOf(t) == <<>>

\* t.note.toLowerCase().includes(searchTerm.toLowerCase())
\*    || t.amount.toString().includes(searchTerm)
MatchesSearch(t, searchTerm) ==
    Includes(NoteOf(t), searchTerm) \/ Includes(AmountToString(t.amount), searchTerm)

\* filterType === 'ALL' || t.type === filterType
MatchesType(t, filterType) == filterType = "ALL" \/ t.type = filterType

\* a date filter that leaves out the two days it names
MatchesDateExclusive(t, dateStart, dateEnd) ==
    /\ ~(dateStart # NoDate /\ t.date <= dateStart)
    /\ ~(dateEnd # NoDate /\ t.date >= dateEnd)

\* if (dateStart && t.date < dateStart) matchesDate = false;
\* if (dateEnd && t.date > dateEnd) matchesDate = false
MatchesDate(t, dateStart, dateEnd) ==
    /\ ~(dateStart # NoDate /\ t.date < dateStart)
    /\ ~(dateEnd # NoDate /\ t.date > dateEnd)

\* the useMemo filteredTransactions of the mounted view
filteredTransactions ==
    SelectSeq(bookView[1].transactions, LAMBDA t :
        /\ MatchesSearch(t, bookView[1].searchTerm)
        /\ MatchesType(t, bookView[1].filterType)
        /\ MatchesDate(t, bookView[1].dateStart, bookView[1].dateEnd))

\* the four inputs of the filter panel
SetSearchTerm(term) ==
    /\ BookShown
    /\ bookView' = Some([bookView[1] EXCEPT !.searchTerm = term])
    /\ UNCHANGED <<store, reads, booksResult, fetched, clock, join, retired, views>>

SetFilterType(t) ==
    /\ BookShown
    /\ bookView' = Some([bookView[1] EXCEPT !.filterType = t])
    /\ UNCHANGED <<store, reads, booksResult, fetched, clock, join, retired, views>>

SetDateStart(d) ==
    /\ BookShown
    /\ bookView' = Some([bookView[1] EXCEPT !.dateStart = d])
    /\ UNCHANGED <<store, reads, booksResult, fetched, clock, join, retired, views>>

SetDateEnd(d) ==
    /\ BookShown
    /\ bookView' = Some([bookView[1] EXCEPT !.dateEnd = d])
    /\ UNCHANGED <<store, reads, booksResult, fetched, clock, join, retired, views>>

FilterData == [amount : Amounts, type : TxTypes, date : Dates]

FilterInit ==
    /\ OneBusiness
    /\ ledgers = <<[id |-> 1, project_id |-> 1, created_at |-> 1]>>
    /\ \E n \in 0..MaxFilterTx : \E f \in [1..n -> FilterData] :
          entries = [i \in 1..n |->
                        [id |-> i, ledger_id |-> 1, amount |-> f[i].amount,
                         type |-> f[i].type, date |-> f[i].date, time |-> 540,
                         created_at |-> i]]
    /\ txResult = NoResult
    /\ totalsResult = NoResult
    /\ businessesResult = NoResult
    /\ booksResult = NoResult
    /\ fetched = NoResult
    /\ clock = Len(entries) + 1
    /\ currentUser = "u1"
    /\ AppAt(BOOK_DETAIL(1, 1))
    /\ dashboard = NoResult
    /\ detail = NoResult
    /\ request = NoRequest
    /\ bookView = Some([bookId |-> 1, book |-> <<>>, transactions |-> <<>>,
                        loading |-> TRUE, showAddModal |-> FALSE, editingTxId |-> 0,
                        searchTerm |-> <<>>, filterType |-> "ALL",
                        dateStart |-> NoDate, dateEnd |-> NoDate])

FilterNext ==
    \/ BookLoadData
    \/ \E term \in SearchTerms : SetSearchTerm(term)
    \/ \E t \in FilterTypes : SetFilterType(t)
    \/ \E d \in DateInputs : SetDateStart(d)
    \/ \E d \in DateInputs : SetDateEnd(d)

SpecFilter == FilterInit /\ [][FilterNext]_vars

\* the place in the loaded list of the i-th shown entry
PlaceLoaded(i) ==
    CHOOSE k \in 1..Len(bookView[1].transactions) :
        bookView[1].transactions[k].id = filteredTransactions[i].id

\* C28: the filtered list is the loaded list with entries left out, in the
\* same order, each entry with the running balance it has in the whole book;
\* with no search term, type ALL and no dates it is the loaded list; with a
\* start and an end date it holds exactly the entries of those days and the
\* days between that match the type and the search.
C28_FilterKeepsOrderAndBalance ==
    BookShown =>
        LET v == bookView[1]
            loaded == v.transactions
            shown == filteredTransactions
        IN
        /\ \A i \in 1..Len(shown) :
              /\ \E k \in 1..Len(loaded) : loaded[k].id = shown[i].id
              /\ shown[i] = loaded[PlaceLoaded(i)]
              /\ shown[i].runningBalance = SignedFrom(loaded, PlaceLoaded(i))
        /\ \A i, j \in 1..Len(shown) : i < j => PlaceLoaded(i) < PlaceLoaded(j)
        /\ (v.searchTerm = <<>> /\ v.filterType = "ALL"
               /\ v.dateStart = NoDate /\ v.dateEnd = NoDate) => shown = loaded
        /\ (v.dateStart # NoDate /\ v.dateEnd # NoDate) =>
              \A k \in 1..Len(loaded) :
                  (\E i \in 1..Len(shown) : shown[i].id = loaded[k].id)
                     <=> /\ v.dateStart <= loaded[k].date
                         /\ loaded[k].date <= v.dateEnd
                         /\ v.filterType \in {"ALL", loaded[k].type}
                         /\ MatchesSearch(loaded[k], v.searchTerm)

\* C28 witness: of the loaded entries the filter shows the newest one alone,
\* through a type, a search term and one day as both dates, with the running
\* balance of the whole book
C28_Witness ==
    /\ BookShown
    /\ Len(bookView[1].transactions) = MaxFilterTx
    /\ bookView[1].dateStart # NoDate
    /\ bookView[1].dateStart = bookView[1].dateEnd
    /\ bookView[1].filterType = "OUT"
    /\ bookView[1].searchTerm = <<"2">>
    /\ Len(filteredTransactions) = 1
    /\ filteredTransactions[1].id = bookView[1].transactions[1].id
    /\ filteredTransactions[1].runningBalance # Signed(filteredTransactions[1])

(***************************************************************************)
(* The delete specification: the dashboard of u1 over businesses u1 owns   *)
(* or has joined, and its delete confirmation modal.                       *)
(***************************************************************************)
\* error.message of a delete the store refuses
DeleteFailed == "Delete failed"

\* what the confirmation input can hold: nothing, a name, a name in the
\* other case
TypedNames == Names \cup {"", "a"}

\* the modal is rendered: showDeleteModal && businessToDelete
DeleteModalOpen ==
    /\ dashboard # NoResult
    /\ dashboard[1].showDeleteModal
    /\ dashboard[1].businessToDelete # <<>>

\* DashboardView.handleDeleteClick on the delete button of a card
ClickDelete(i) ==
    /\ i \in 1..Len(Cards)
    /\ OffersOwnerButtons(Cards[i])
    /\ ~DeleteModalOpen
    /\ dashboard' = Some([dashboard[1] EXCEPT
                             !.businessToDelete = Some([id |-> Cards[i].id,
                                                        name |-> Cards[i].name]),
                             !.deleteConfirmationName = "",
                             !.deleteError = "",
                             !.showDeleteModal = TRUE])
    /\ UNCHANGED <<store, reads, join, bookSide, retired, currentUser, user, viewState, detail, request>>

\* onChange of the confirmation input
TypeConfirmationName(name) ==
    /\ DeleteModalOpen
    /\ dashboard' = Some([dashboard[1] EXCEPT !.deleteConfirmationName = name])
    /\ UNCHANGED <<store, reads, join, bookSide, retired, currentUser, user, viewState, detail, request>>

\* the Cancel button of the modal
CancelDelete ==
    /\ DeleteModalOpen
    /\ dashboard' = Some([dashboard[1] EXCEPT !.showDeleteModal = FALSE,
                                              !.businessToDelete = <<>>])
    /\ UNCHANGED <<store, reads, join, bookSide, retired, currentUser, user, viewState, detail, request>>

\* a check that takes any typed name
NameConfirmedAlways(typed, b) == TRUE

\* deleteConfirmationName !== businessToDelete.name, negated
NameConfirmed(typed, b) == typed = b.name

\* DashboardView.confirmDelete on the submitted form; the store either
\* deletes the business (storeError empty) or answers with an error
SubmitConfirmDelete(storeError) ==
    /\ DeleteModalOpen
    /\ UNCHANGED <<reads, join, bookSide, retired, currentUser, user, viewState, detail>>
    /\ LET b == dashboard[1].businessToDelete[1] IN
       IF ~NameConfirmed(dashboard[1].deleteConfirmationName, b)
       THEN /\ dashboard' = Some([dashboard[1] EXCEPT !.deleteError = NameMismatch])
            /\ UNCHANGED <<store, request>>
       ELSE /\ request' = [op |-> "delete", id |-> b.id, by |-> currentUser]
            /\ IF storeError # ""
               THEN /\ dashboard' = Some([dashboard[1] EXCEPT !.deleteError = storeError])
                    /\ UNCHANGED store
               ELSE /\ projects' = deleteBusiness(b.id)
                    /\ project_members' = CascadeMembers(b.id)
                    /\ ledgers' = CascadeLedgers(b.id)
                    /\ entries' = CascadeEntries(b.id)
                    /\ dashboard' = Some([dashboard[1] EXCEPT
                                             !.showDeleteModal = FALSE,
                                             !.businessToDelete = <<>>,
                                             !.businesses = getBusinesses(currentUser)',
                                             !.loading = FALSE])

\* u1 has just opened the app; every business is owned by u1 or joined by u1
\* and holds one book
DeleteInit ==
    /\ \E n \in 1..MaxBusinesses :
       \E name \in [1..n -> Names], owner \in [1..n -> Users] :
          /\ projects = [i \in 1..n |->
                            [id |-> i, owner_id |-> owner[i], name |-> name[i],
                             join_code |-> "100000"]]
          /\ project_members = { MemberRow("u1", i) : i \in { j \in 1..n : owner[j] # "u1" } }
          /\ ledgers = [i \in 1..n |-> [id |-> i, project_id |-> i, created_at |-> i]]
    /\ entries = <<>>
    /\ txResult = NoResult
    /\ totalsResult = NoResult
    /\ businessesResult = NoResult
    /\ booksResult = NoResult
    /\ fetched = NoResult
    /\ clock = 1
    /\ join = [u \in Users |-> IdleJoin]
    /\ retired = {}
    /\ currentUser = "u1"
    /\ AppAt(DASHBOARD)
    /\ dashboard = Some([businesses |-> <<>>, loading |-> TRUE, editingId |-> 0,
                         businessToDelete |-> <<>>, deleteError |-> "",
                         deleteConfirmationName |-> "", showDeleteModal |-> FALSE])
    /\ detail = NoResult
    /\ bookView = NoResult
    /\ request = NoRequest

DeleteNext ==
    \/ DashboardLoadData
    \/ \E i \in 1..MaxBusinesses : ClickDelete(i)
    \/ \E name \in TypedNames : TypeConfirmationName(name)
    \/ CancelDelete
    \/ \E e \in {"", DeleteFailed} : SubmitConfirmDelete(e)

SpecDelete == DeleteInit /\ [][DeleteNext]_vars

\* what a step of the dashboard may do about a delete
DeleteOnlyConfirmed ==
    LET d == dashboard[1]
        e == dashboard'[1]
    IN
    /\ (request' # request \/ store' # store) =>
          /\ DeleteModalOpen
          /\ d.deleteConfirmationName = d.businessToDelete[1].name
          /\ request' = [op |-> "delete", id |-> d.businessToDelete[1].id,
                         by |-> currentUser]
          /\ \/ store' = store
             \/ /\ projects' = deleteBusiness(d.businessToDelete[1].id)
                /\ ~e.showDeleteModal
                /\ e.businesses = getBusinesses(currentUser)'
    /\ (DeleteModalOpen
          /\ d.deleteConfirmationName # d.businessToDelete[1].name
          /\ e.deleteError # d.deleteError) =>
          /\ e.deleteError = NameMismatch
          /\ store' = store
          /\ request' = request
          /\ e.showDeleteModal
          /\ e.businessToDelete = d.businessToDelete
    /\ (DeleteModalOpen /\ e.deleteError = DeleteFailed /\ d.deleteError # DeleteFailed) =>
          /\ store' = store
          /\ e.showDeleteModal
          /\ e.businessToDelete = d.businessToDelete
          /\ e.businesses = d.businesses

\* C29: the dashboard sends deleteBusiness only for the business chosen with
\* handleDeleteClick and only while the typed name is that business's name;
\* a submit with another name sets 'Name does not match.', deletes nothing
\* and leaves the modal open; a delete the store refuses leaves the modal
\* open with the store's error and the list as it was.
C29_DeleteNeedsExactName == [][DeleteOnlyConfirmed]_vars

\* C29 witness: after a submit with another name and then one with the
\* exact name, the chosen business is gone with its book, the modal is
\* closed and the other businesses are still stored and listed
C29_Witness ==
    /\ request.op = "delete"
    /\ Len(projects) = MaxBusinesses - 1
    /\ dashboard # NoResult
    /\ ~dashboard[1].showDeleteModal
    /\ dashboard[1].deleteError = NameMismatch
    /\ Len(Cards) = Len(projects)
    /\ \A i \in 1..Len(projects) :
          projects[i].id # request.id /\ projects[i].name = "A"
    /\ Len(ledgers) = Len(projects)


(***************************************************************************)
(* The navigation specification: App with its state user and viewState,    *)
(* the stored user of getCurrentUser, two businesses with a book each,     *)
(* and the views App renders.                                              *)
(***************************************************************************)
\* Router Logic: the view App renders for its state
Router ==
    IF viewState.name = "AUTH" \/ user = <<>> THEN "AuthView"
    ELSE IF viewState.name = "DASHBOARD" THEN "DashboardView"
    ELSE IF viewState.name = "BUSINESS_DETAIL" THEN "BusinessDetailView"
    ELSE IF viewState.name = "BOOK_DETAIL" THEN "BookDetailView"
    ELSE "Unknown State"

\* the view that is mounted
MountedView ==
    IF dashboard # NoResult THEN "DashboardView"
    ELSE IF detail # NoResult THEN "BusinessDetailView"
    ELSE IF bookView # NoResult THEN "BookDetailView"
    ELSE "AuthView"

\* AuthView.handleSubmit, signing in: signInUser stores the user
SignInUser(u) ==
    /\ Router = "AuthView"
    /\ currentUser' = u
    /\ UNCHANGED <<store, reads, join, bookSide, retired, dashboard, detail, request,
                   user, viewState>>

\* App.handleLogin, the onLogin of AuthView: called after signInUser, and
\* after a sign-up that needs no confirmation, which stores no user
handleLogin ==
    /\ Router = "AuthView"
    /\ IF currentUser # None
       THEN /\ user' = Some(currentUser)
            /\ viewState' = DASHBOARD
            /\ dashboard' = Some(DashboardMounted)
       ELSE UNCHANGED <<user, viewState, dashboard>>
    /\ UNCHANGED <<store, reads, join, bookSide, retired, currentUser, detail, request>>

\* App.handleLogout, the onLogout of DashboardView: setUser(null) and
\* setViewState AUTH at once; logoutUser removes the stored user after the
\* sign-out it awaits, which is the step SignedOut
handleLogout ==
    /\ dashboard # NoResult
    /\ user' = <<>>
    /\ viewState' = AUTH
    /\ dashboard' = NoResult
    /\ UNCHANGED <<store, reads, join, bookSide, retired, currentUser, detail, request>>

\* the onAuthStateChange callback on SIGNED_OUT: a logout, an expiry or a
\* sign-out elsewhere, in any view
SignedOut ==
    /\ currentUser # None \/ user # <<>>
    /\ user' = <<>>
    /\ viewState' = AUTH
    /\ currentUser' = None
    /\ dashboard' = NoResult
    /\ detail' = NoResult
    /\ bookView' = NoResult
    /\ UNCHANGED <<store, reads, join, booksResult, fetched, clock, retired, request>>

\* a back-navigation that forgets the business it came from
BackToFirstBusiness(view) == BUSINESS_DETAIL(1)

\* the view state the onBack of BookDetailView sets
BookBackTarget(view) == BUSINESS_DETAIL(view.businessId)

\* App.onBack of BookDetailView, behind the button of the loaded book:
\* BookDetailView unmounts and BusinessDetailView mounts
OnBackOfBook ==
    /\ BookShown
    /\ viewState' = BookBackTarget(viewState)
    /\ bookView' = NoResult
    /\ detail' = Some(DetailMounted(BookBackTarget(viewState).businessId))
    /\ UNCHANGED <<store, reads, join, booksResult, fetched, clock, retired,
                   currentUser, dashboard, request, user>>

\* two businesses, one of each user and shared with the other, a book each;
\* App after its mount effect: DASHBOARD with the stored user when there is
\* one, AUTH otherwise
AppInit ==
    /\ projects = <<[id |-> 1, owner_id |-> "u1", name |-> "A", join_code |-> "100000"],
                    [id |-> 2, owner_id |-> "u2", name |-> "B", join_code |-> "100000"]>>
    /\ project_members = {MemberRow("u2", 1), MemberRow("u1", 2)}
    /\ ledgers = <<[id |-> 1, project_id |-> 1, created_at |-> 1],
                   [id |-> 2, project_id |-> 2, created_at |-> 2]>>
    /\ entries = <<>>
    /\ txResult = NoResult
    /\ totalsResult = NoResult
    /\ businessesResult = NoResult
    /\ booksResult = NoResult
    /\ fetched = NoResult
    /\ clock = 1
    /\ join = [u \in Users |-> IdleJoin]
    /\ retired = {}
    /\ request = NoRequest
    /\ detail = NoResult
    /\ bookView = NoResult
    /\ currentUser \in Users \cup {None}
    /\ IF currentUser # None
       THEN /\ user = Some(currentUser)
            /\ viewState = DASHBOARD
            /\ dashboard = Some(DashboardMounted)
       ELSE /\ user = <<>>
            /\ viewState = AUTH
            /\ dashboard = NoResult

AppNext ==
    \/ \E u \in Users : SignInUser(u)
    \/ handleLogin
    \/ handleLogout
    \/ SignedOut
    \/ DashboardLoadData
    \/ \E i \in 1..2 : OnSelectBusiness(i)
    \/ \E c \in Codes : BusinessDetailLoadData(c)
    \/ OnBack
    \/ \E i \in 1..2 : OnSelectBook(i)
    \/ BookLoadData
    \/ OnBackOfBook

SpecApp == AppInit /\ [][AppNext]_vars

\* the book belongs to the business
BookOf(businessId, bookId) ==
    \E i \in 1..Len(ledgers) :
        ledgers[i].id = bookId /\ ledgers[i].project_id = businessId

\* what is mounted is what the router renders, and anything but AuthView
\* only for a user
RendersForUser ==
    /\ MountedView = Router
    /\ MountedView # "AuthView" => user # <<>> /\ viewState.name # "AUTH"

\* one step of App: sign-out and logout, login, and the moves between views
AppStep ==
    /\ SignedOut \/ handleLogout => user' = <<>> /\ viewState' = AUTH
    /\ user # <<>> /\ user' = <<>> => viewState' = AUTH
    /\ handleLogin /\ currentUser = None => UNCHANGED <<user, viewState>>
    /\ viewState.name # "DASHBOARD" /\ viewState'.name = "DASHBOARD" =>
          \/ viewState.name = "AUTH" /\ currentUser # None /\ user' = Some(currentUser)
          \/ viewState.name = "BUSINESS_DETAIL" /\ user' = user
    /\ viewState'.name = "BOOK_DETAIL" /\ viewState' # viewState =>
          /\ viewState = BUSINESS_DETAIL(viewState'.businessId)
          /\ BookOf(viewState'.businessId, viewState'.bookId)
    /\ viewState.name = "BOOK_DETAIL" /\ viewState' # viewState =>
          viewState' \in {BUSINESS_DETAIL(viewState.businessId), AUTH}
    /\ viewState.name = "BUSINESS_DETAIL" /\ viewState' # viewState =>
          \/ viewState' \in {DASHBOARD, AUTH}
          \/ /\ viewState'.name = "BOOK_DETAIL"
             /\ viewState'.businessId = viewState.businessId

\* C30: App renders a view other than AuthView only for a non-null user; a
\* SIGNED_OUT event and handleLogout set user to null and the view state to
\* AUTH; handleLogin moves to DASHBOARD only with a stored user; BOOK_DETAIL
\* is entered only from BUSINESS_DETAIL of the business of the book, and the
\* way back is BOOK_DETAIL, BUSINESS_DETAIL of the same business, DASHBOARD
C30_NavigationOfApp == []RendersForUser /\ [][AppStep]_vars

\* C30 witness: user u2 has gone from DASHBOARD through BUSINESS_DETAIL of the
\* second business to BOOK_DETAIL of its book, loaded, with the back button
C30_Witness ==
    /\ user = Some("u2")
    /\ viewState = BOOK_DETAIL(2, 2)
    /\ BookShown
    /\ bookView[1].bookId = 2
====
